---- MODULE Spec2Model ----
(***************************************************************************)
(* Weather Acquisition Service of the cycling nutrition planner:           *)
(* src/app/api/weather/route.ts, lines 1-254 (the GET handler with its     *)
(* in-memory rate limiter and weather cache).                              *)
(*                                                                         *)
(* Time is the value of Date.now() in milliseconds.  The model's clock     *)
(* moves on a grid of Tick milliseconds; the program constants keep their  *)
(* values in milliseconds, so every comparison of the code is evaluated    *)
(* on the numbers the code compares.                                       *)
(***************************************************************************)
EXTENDS Integers, Sequences, FiniteSets, TLC

(***************************************************************************)
(* Program constants                                                       *)
(***************************************************************************)
RATE_LIMIT == 100

RATE_LIMIT_WINDOW == 60 * 60 * 1000

CACHE_DURATION == 30 * 60 * 1000

\* DEFAULT_WEATHER; location strings are modelled as tuples of their parts.
DEFAULT_WEATHER ==
  [location |-> <<"Default Location">>, temperature |-> 75]

(***************************************************************************)
(* Bounds of the model                                                     *)
(***************************************************************************)
\* The clock grid: a quarter of an hour, in milliseconds.
Tick == 15 * 60 * 1000

\* The clock stops after MaxTicks grid steps.
MaxTicks == 5

\* Requests of one behaviour of Spec.
MaxRequests == 3

\* Requests of one caller in flight together (SpecConc).
MaxInFlight == 2

\* Track points one scan of SpecScan processes.
MaxPoints == 4

\* Files selected in the route input in one behaviour (SpecUpload).
MaxUploads == 2

\* Minutes of a ride the timer counts (SpecRide).
MaxElapsed == 62

(***************************************************************************)
(* Inputs                                                                  *)
(***************************************************************************)
\* searchParams.get('zip') === null
Null == <<"null">>

\* Postal codes are tuples of characters.
ZipA == <<"3", "0", "3", "0", "1">>

ZipB == <<"9", "0", "2", "1", "0", "-", "1", "2", "3", "4">>

ZipBadPlus4 == <<"9", "0", "2", "1", "0", "-", "1", "2", "3">>

ZipInputs == {Null, ZipA, ZipB, ZipBadPlus4}

Callers == {"198.51.100.7"}

\* Answers of the geocoding upstream: 2xx with coordinates, 404, another
\* non-2xx status, or fetch()/json() throwing (network error, bad JSON).
GeoAnswers == {"ok", "404", "non2xx", "throws"}

\* Answers of the reverse-geocoding upstream: 2xx with a state name, 2xx
\* without one, non-2xx, or fetch()/json() throwing.
ReverseAnswers == {"state", "nostate", "non2xx", "throws"}

\* Answers of the current-conditions upstream: 2xx with a complete payload,
\* non-2xx, fetch()/json() throwing, or 2xx with a payload lacking `current`
\* or `current.weather[0]` (a TypeError while the snapshot is built).
WeatherAnswers == {"ok", "non2xx", "throws", "malformed"}

\* current.temp of a complete payload.
Temps == {68, 91}

Upstream(geo, rev, wx, temp) == [geo |-> geo, rev |-> rev, wx |-> wx, temp |-> temp]

\* What the three upstreams answer to one request.  An answer the handler
\* never reads (after an earlier failure it makes no further call) is fixed,
\* so that each behaviour the handler can tell apart is listed once.
UpstreamBehaviours ==
  {Upstream(g, "nostate", "ok", 68) : g \in GeoAnswers \ {"ok"}}
    \cup {Upstream("ok", "throws", "ok", 68)}
    \cup {Upstream("ok", "nostate", w, 68) : w \in WeatherAnswers \ {"ok"}}
    \cup {Upstream("ok", "non2xx", "non2xx", 68)}
    \cup {Upstream("ok", r, "ok", t) : r \in ReverseAnswers \ {"throws"}, t \in Temps}

\* The upstreams of a request that is answered before any upstream call.
NotAsked == Upstream("ok", "nostate", "ok", 68)

(***************************************************************************)
(* State                                                                   *)
(***************************************************************************)
VARIABLES
  now,             \* Date.now()
  apiKeySet,       \* process.env.OPENWEATHER_API_KEY is set
  rateLimitStore,  \* Map: caller key -> [count, resetTime]
  weatherCache,    \* Map: postal code (of the key `weather_${zip}`) -> [data, timestamp]
  response,        \* the last response sent by GET
  lastRequest,     \* observation: the request that response answers
  inflight,        \* the request suspended at an await (SpecAsync)
  reqs,            \* observation: requests handled so far (Spec)
  seen,            \* observation: requests of each caller in its current window
  probe,           \* observation: accepted requests in one rolling hour (SpecRL)
  pending,         \* the requests suspended at an await, by request (SpecConc)
  unitSystem,      \* planner page: 'US' | 'UK'
  effectiveRideTime, \* planner page: the value of getEffectiveRideTime(), minutes
  rideIntensity,   \* planner page: 'casual' | 'moderate' | 'hard'
  currentTemp,     \* planner page: degrees Fahrenheit
  nutritionProfile, \* planner page: <<>> (null) or <<profile>>
  routeData,       \* planner page: <<>> (null) or <<route>>
  fuelSchedule,    \* planner page: the schedule shown
  scan,            \* parseGPXFile: the locals of the track-point loop
  rideType,        \* planner page: 'time' | 'miles' | 'kilometers'
  rideTime,        \* planner page: the ride time chosen, minutes
  rideMiles,       \* planner page: the distance box, tenths of a mile
  rideKilometers,  \* planner page: the distance box, tenths of a kilometre
  isParsingGPX,    \* planner page: a route file is being processed
  gpxError,        \* planner page: the upload error shown, "" for none
  uploads,         \* the calls of handleGPXUpload suspended at an await (SpecUpload)
  selection,       \* observation: the names of the files selected, in order
  parsedXml,       \* observation: the names of the files DOMParser has parsed
  isRiding,        \* planner page: a ride is under way
  elapsedTime,     \* planner page: minutes since startRide
  completedAlerts  \* planner page: Set<number> of the alert times marked completed

\* The planner page's state.
rideVars == <<rideType, rideTime, rideMiles, rideKilometers>>

uploadVars == <<isParsingGPX, gpxError, uploads, selection, parsedXml>>

alertVars == <<isRiding, elapsedTime, completedAlerts>>

plannerVars ==
  <<unitSystem, effectiveRideTime, rideIntensity, currentTemp, nutritionProfile,
    routeData, fuelSchedule, scan, rideVars, uploadVars, alertVars>>

vars ==
  <<now, apiKeySet, rateLimitStore, weatherCache, response, lastRequest,
    inflight, reqs, seen, probe, pending, plannerVars>>

\* Map.set
Put(map, key, value) ==
  [k \in DOMAIN map \cup {key} |-> IF k = key THEN value ELSE map[k]]

EmptyMap == [k \in {} |-> 0]

(***************************************************************************)
(* validateZipCode: /^\d{5}(-\d{4})?$/                                     *)
(***************************************************************************)
Digits == {"0", "1", "2", "3", "4", "5", "6", "7", "8", "9"}

validateZipCode(zip) ==
  \/ /\ Len(zip) = 5
     /\ \A i \in 1..5 : zip[i] \in Digits
  \/ /\ Len(zip) = 10
     /\ \A i \in 1..5 : zip[i] \in Digits
     /\ zip[6] = "-"
     /\ \A i \in 7..10 : zip[i] \in Digits

\* !zip
ZipMissing(zip) == zip = Null \/ zip = <<>>

(***************************************************************************)
(* checkRateLimit                                                          *)
(***************************************************************************)
\* now > record.resetTime
\* Mutant: the window is over as soon as its resetTime is reached.
WindowExpired_AtResetTime(record, t) == t >= record.resetTime

WindowExpired(record, t) == t > record.resetTime

\* Mutant: the limit is compared with > instead of >=.
LimitReached_OffByOne(record) == record.count > RATE_LIMIT

\* record.count >= RATE_LIMIT
LimitReached(record) == record.count >= RATE_LIMIT

\* Mutant: a new window starts counting at 0, so its opening request is free.
checkRateLimit_ResetZero(store, key, t) ==
  IF key \notin DOMAIN store \/ WindowExpired(store[key], t)
  THEN [ok |-> TRUE,
        store |-> Put(store, key, [count |-> 0, resetTime |-> t + RATE_LIMIT_WINDOW])]
  ELSE IF LimitReached(store[key])
  THEN [ok |-> FALSE, store |-> store]
  ELSE [ok |-> TRUE,
        store |-> Put(store, key, [count |-> store[key].count + 1,
                                   resetTime |-> store[key].resetTime])]

\* Mutant: the increment of a record in use is computed but not stored.
checkRateLimit_LostUpdate(store, key, t) ==
  IF key \notin DOMAIN store \/ WindowExpired(store[key], t)
  THEN [ok |-> TRUE,
        store |-> Put(store, key, [count |-> 1, resetTime |-> t + RATE_LIMIT_WINDOW])]
  ELSE IF LimitReached(store[key])
  THEN [ok |-> FALSE, store |-> store]
  ELSE [ok |-> TRUE, store |-> store]

\* The boolean checkRateLimit returns and the store it leaves.
checkRateLimit(store, key, t) ==
  IF key \notin DOMAIN store \/ WindowExpired(store[key], t)
  THEN [ok |-> TRUE,
        store |-> Put(store, key, [count |-> 1, resetTime |-> t + RATE_LIMIT_WINDOW])]
  ELSE IF LimitReached(store[key])
  THEN [ok |-> FALSE, store |-> store]
  ELSE [ok |-> TRUE,
        store |-> Put(store, key, [count |-> store[key].count + 1,
                                   resetTime |-> store[key].resetTime])]

(***************************************************************************)
(* Responses                                                               *)
(***************************************************************************)
\* Math.round(ms / 1000 / 60) for ms >= 0
RoundMinutes(ms) == (2 * ms + 60000) \div 120000

\* NextResponse.json(body, {status}); absent body fields are FALSE / <<>> / "".
Response(status, error, snapshot, fallbackWeather, cached, stale, fallback, cacheAge, warning) ==
  [status |-> status, error |-> error, snapshot |-> snapshot,
   fallbackWeather |-> fallbackWeather, cached |-> cached, stale |-> stale,
   fallback |-> fallback, cacheAge |-> cacheAge, warning |-> warning]

NoResponse == Response(0, "", <<>>, <<>>, FALSE, FALSE, FALSE, 0, "")

ErrorResponse(status, error) ==
  Response(status, error, <<>>, <<>>, FALSE, FALSE, FALSE, 0, "")

\* Mutant: the 429 carries no fallbackWeather.
RateLimitResponse_Bare == ErrorResponse(429, "Rate limit exceeded")

\* lines 83-95
RateLimitResponse ==
  Response(429, "Rate limit exceeded. Please wait before making another request.",
           <<>>, <<DEFAULT_WEATHER>>, FALSE, FALSE, FALSE, 0, "")

\* lines 118-122
CacheHitResponse(entry, t) ==
  Response(200, "", <<entry.data>>, <<>>, TRUE, FALSE, FALSE,
           RoundMinutes(t - entry.timestamp), "")

\* lines 227, 208-219
FreshResponse(data) ==
  Response(200, "", <<data>>, <<>>, FALSE, FALSE, FALSE, 0, "")

\* lines 238-244
StaleResponse(entry, t) ==
  Response(200, "", <<entry.data>>, <<>>, TRUE, TRUE, FALSE,
           RoundMinutes(t - entry.timestamp),
           "Using cached weather data - service temporarily unavailable")

\* lines 248-252
DefaultResponse ==
  Response(200, "", <<DEFAULT_WEATHER>>, <<>>, FALSE, FALSE, TRUE, 0,
           "Weather service unavailable - using default conditions")

\* Mutant: the catch block ignores the cache.
CatchResponse_DefaultOnly(cache, zip, t) == DefaultResponse

\* Mutant: the catch block answers with an error.
CatchResponse_Error500(cache, zip, t) == ErrorResponse(500, "Unable to fetch weather data")

\* The catch block, lines 229-253.
CatchResponse(cache, zip, t) ==
  IF zip \in DOMAIN cache
  THEN StaleResponse(cache[zip], t)
  ELSE DefaultResponse

\* Mutant: the TTL is compared with <= instead of <.
CacheIsFresh_Inclusive(entry, t) == (t - entry.timestamp) <= CACHE_DURATION

\* (now - cached.timestamp) < CACHE_DURATION
CacheIsFresh(entry, t) == (t - entry.timestamp) < CACHE_DURATION

(***************************************************************************)
(* The fresh fetch, lines 133-227                                          *)
(***************************************************************************)
\* name and country of the geocoding payload
GeoName(zip) == IF zip = ZipA THEN "Atlanta" ELSE "Beverly Hills"

\* lines 197-205, for country === 'US'
LocationDisplay(name, stateName) ==
  IF stateName # "" THEN <<name, stateName>> ELSE <<name, "US">>

\* lines 168-177
StateNameOf(rev) == IF rev = "state" THEN "ST" ELSE ""

\* lines 208-219
WeatherDataOf(zip, up) ==
  [location |-> LocationDisplay(GeoName(zip), StateNameOf(up.rev)),
   temperature |-> up.temp]

\* Mutant: the write lands on every key of the cache.
CacheWrite_AllKeys(cache, zip, data, t) ==
  [k \in DOMAIN cache \cup {zip} |-> [data |-> data, timestamp |-> t]]

\* weatherCache.set(cacheKey, {data, timestamp: Date.now()})
CacheWrite(cache, zip, data, t) ==
  Put(cache, zip, [data |-> data, timestamp |-> t])

\* What a handler run yields: the response, the two maps, the upstream calls made.
Outcome(resp, store, cache, calls) ==
  [resp |-> resp, store |-> store, cache |-> cache, calls |-> calls]

\* Mutant: the cache entry is written once geocoding has succeeded, before the
\* conditions are known.
FetchOutcome_EarlyWrite(store, cache, zip, up, t) ==
  IF up.geo = "throws" \/ up.geo = "non2xx"
  THEN Outcome(CatchResponse(cache, zip, t), store, cache, {"geo"})
  ELSE IF up.geo = "404"
  THEN Outcome(ErrorResponse(404, "Location not found"), store, cache, {"geo"})
  ELSE IF up.rev = "throws"
  THEN Outcome(CatchResponse(cache, zip, t), store, cache, {"geo", "reverse"})
  ELSE IF up.wx # "ok"
  THEN Outcome(CatchResponse(cache, zip, t), store,
               CacheWrite(cache, zip, WeatherDataOf(zip, up), t),
               {"geo", "reverse", "weather"})
  ELSE Outcome(FreshResponse(WeatherDataOf(zip, up)), store,
               CacheWrite(cache, zip, WeatherDataOf(zip, up), t),
               {"geo", "reverse", "weather"})

\* Mutant: a reverse-geocoding answer that is not 2xx is thrown to the catch.
FetchOutcome_ReverseRequired(store, cache, zip, up, t) ==
  IF up.geo = "throws" \/ up.geo = "non2xx"
  THEN Outcome(CatchResponse(cache, zip, t), store, cache, {"geo"})
  ELSE IF up.geo = "404"
  THEN Outcome(ErrorResponse(404, "Location not found"), store, cache, {"geo"})
  ELSE IF up.rev = "throws" \/ up.rev = "non2xx"
  THEN Outcome(CatchResponse(cache, zip, t), store, cache, {"geo", "reverse"})
  ELSE IF up.wx # "ok"
  THEN Outcome(CatchResponse(cache, zip, t), store, cache, {"geo", "reverse", "weather"})
  ELSE Outcome(FreshResponse(WeatherDataOf(zip, up)), store,
               CacheWrite(cache, zip, WeatherDataOf(zip, up), t),
               {"geo", "reverse", "weather"})

\* lines 133-227 with the catch of lines 229-253, every upstream answering.
FetchOutcome(store, cache, zip, up, t) ==
  IF up.geo = "throws" \/ up.geo = "non2xx"
  THEN Outcome(CatchResponse(cache, zip, t), store, cache, {"geo"})
  ELSE IF up.geo = "404"
  THEN Outcome(ErrorResponse(404, "Location not found"), store, cache, {"geo"})
  ELSE IF up.rev = "throws"
  THEN Outcome(CatchResponse(cache, zip, t), store, cache, {"geo", "reverse"})
  ELSE IF up.wx # "ok"
  THEN Outcome(CatchResponse(cache, zip, t), store, cache, {"geo", "reverse", "weather"})
  ELSE Outcome(FreshResponse(WeatherDataOf(zip, up)), store,
               CacheWrite(cache, zip, WeatherDataOf(zip, up), t),
               {"geo", "reverse", "weather"})

\* Mutant: the format of the postal code is not checked.
EarlyResponse_NoFormatCheck(cache, apiKey, zip, t) ==
  IF ZipMissing(zip) THEN <<ErrorResponse(400, "Zip code is required")>>
  ELSE IF zip \in DOMAIN cache /\ CacheIsFresh(cache[zip], t)
  THEN <<CacheHitResponse(cache[zip], t)>>
  ELSE IF ~apiKey THEN <<ErrorResponse(503, "Weather service temporarily unavailable")>>
  ELSE <<>>

\* lines 98-131: what the handler answers before any upstream call, if it does.
EarlyResponse(cache, apiKey, zip, t) ==
  IF ZipMissing(zip) THEN <<ErrorResponse(400, "Zip code is required")>>
  ELSE IF ~validateZipCode(zip) THEN <<ErrorResponse(400, "Invalid zip code format")>>
  ELSE IF zip \in DOMAIN cache /\ CacheIsFresh(cache[zip], t)
  THEN <<CacheHitResponse(cache[zip], t)>>
  ELSE IF ~apiKey THEN <<ErrorResponse(503, "Weather service temporarily unavailable")>>
  ELSE <<>>

\* GET, lines 74-254, run to completion at time t.
GETOutcome(store, cache, apiKey, key, zip, up, t) ==
  LET rl == checkRateLimit(store, key, t)
      early == EarlyResponse(cache, apiKey, zip, t)
  IN IF ~rl.ok THEN Outcome(RateLimitResponse, rl.store, cache, {})
     ELSE IF early # <<>> THEN Outcome(early[1], rl.store, cache, {})
     ELSE FetchOutcome(rl.store, cache, zip, up, t)

(***************************************************************************)
(* The planner page's fetchWeather: what it shows for a response.          *)
(***************************************************************************)
\* The catch block of fetchWeather: the page's own fallback values.
ClientFallback(message) ==
  [locationName |-> <<>>, currentTemp |-> 75, weatherError |-> message]

\* The state fetchWeather leaves for a response; weatherError is the message
\* without the cache age it appends.
fetchWeather(resp) ==
  IF resp.status = 429 /\ resp.fallbackWeather # <<>>
  THEN [locationName |-> resp.fallbackWeather[1].location,
        currentTemp |-> resp.fallbackWeather[1].temperature,
        weatherError |-> resp.error]
  ELSE IF resp.status # 200
  THEN ClientFallback(resp.error)
  ELSE [locationName |-> resp.snapshot[1].location,
        currentTemp |-> resp.snapshot[1].temperature,
        weatherError |-> IF resp.cached /\ resp.stale THEN resp.warning
                         ELSE IF resp.cached THEN "Using cached data"
                         ELSE IF resp.fallback THEN resp.warning
                         ELSE ""]

(***************************************************************************)
(* The planner page (src/unnamed/part_001): numbers.  Minutes are whole,   *)
(* distances are in metres and elevations in decimetres, so that the 0.5 m *)
(* threshold of the climb scan is the whole number 5.  NaN is what         *)
(* parseFloat gives for text that is not a number: every comparison with   *)
(* it is false and every sum with it is NaN.  Every other number of the    *)
(* model that may be NaN is non-negative.                                  *)
(***************************************************************************)
NaN == 0 - 1

Lt(a, b) == a # NaN /\ b # NaN /\ a < b

Gt(a, b) == a # NaN /\ b # NaN /\ a > b

Ge(a, b) == a # NaN /\ b # NaN /\ a >= b

Plus(a, b) == IF a = NaN \/ b = NaN THEN NaN ELSE a + b

Minus(a, b) == IF a = NaN \/ b = NaN THEN NaN ELSE a - b

Abs(x) == IF x < 0 THEN 0 - x ELSE x

\* Math.round(num / den) for num >= 0 and den > 0: the nearest whole number,
\* a half going up.  The quotient is exact here; the code's is a double.
Round(num, den) == (2 * num + den) \div (2 * den)

\* Math.round(distanceInMiles * 10): the tenths of a mile of
\* totalDistance * 0.621371, totalDistance in metres here.
\* That is Round(totalDistance * 621371, 100000000), computed in two parts so
\* that no product leaves the 32-bit integers the model is checked with.
RoundedMiles(totalDistance) ==
  IF totalDistance = NaN THEN NaN
  ELSE (totalDistance * 6213 + (totalDistance * 71 + 50000000) \div 100) \div 1000000

\* Math.round(totalDistance * 10): the tenths of a kilometre.
RoundedKm(totalDistance) ==
  IF totalDistance = NaN THEN NaN ELSE Round(totalDistance, 100)

\* Mutant: the quotient is cut to a whole number instead of rounded.
milesToTime_Floor(tenths) == IF tenths = NaN THEN NaN ELSE (tenths * 60) \div (14 * 10)

\* Math.round((miles / 14) * 60), miles given in tenths.
milesToTime(tenths) == IF tenths = NaN THEN NaN ELSE Round(tenths * 60, 14 * 10)

\* Math.round((kilometers / 22.5) * 60), kilometres given in tenths.
kilometersToTime(tenths) == IF tenths = NaN THEN NaN ELSE Round(tenths * 60, 225)

\* getEffectiveRideTime() (lines 309-313) for the values of rideType,
\* rideTime, rideMiles and rideKilometers.
getEffectiveRideTime(type, time, miles, kilometers) ==
  IF type = "time" THEN time
  ELSE IF type = "miles" THEN milesToTime(miles)
  ELSE kilometersToTime(kilometers)

\* flatTime (lines 241-251): Math.round((roundedMiles / 14) * 60) or
\* Math.round((roundedKm / 22.5) * 60) of the distance rounded to one decimal,
\* without an elevation bonus.
FlatTime(unit, totalDistance) ==
  IF unit = "US"
  THEN LET roundedMiles == RoundedMiles(totalDistance)
       IN IF roundedMiles = NaN THEN NaN ELSE Round(roundedMiles * 60, 14 * 10)
  ELSE LET roundedKm == RoundedKm(totalDistance)
       IN IF roundedKm = NaN THEN NaN ELSE Round(roundedKm * 60, 225)

(***************************************************************************)
(* generateSchedule                                                        *)
(***************************************************************************)
FuelAlert(time, type, amount, priority) ==
  [time |-> time, type |-> type, amount |-> amount, priority |-> priority]

\* Mutant: only rides under 45 minutes return at once.
ShortRide_Under45(durationMinutes) == Lt(durationMinutes, 45)

\* if (durationMinutes < 60) return schedule;
ShortRide(durationMinutes) == Lt(durationMinutes, 60)

NoFuel == [carbRate |-> 0, startTime |-> <<>>, carbInterval |-> 0]

Tier(carbRate, startTime, carbInterval) ==
  [carbRate |-> carbRate, startTime |-> <<startTime>>, carbInterval |-> carbInterval]

\* Mutant: each boundary belongs to the tier below it.
CarbTier_BoundaryBelow(intensity, d) ==
  IF intensity = "casual"
  THEN IF d <= 90 THEN NoFuel
       ELSE IF d <= 150 THEN Tier(20, 75, 60)
       ELSE Tier(30, 75, 50)
  ELSE IF intensity = "moderate"
  THEN IF d <= 75 THEN NoFuel
       ELSE IF d <= 90 THEN Tier(25, 60, 60)
       ELSE IF d <= 150 THEN Tier(45, 60, 35)
       ELSE Tier(60, 60, 25)
  ELSE IF d <= 60 THEN NoFuel
       ELSE IF d <= 90 THEN Tier(50, 45, 30)
       ELSE Tier(70, 45, 20)

\* The carb tier of an intensity and a duration: carbRate in g/h, startTime
\* (<<>> for null) and carbInterval in minutes.
CarbTier(intensity, d) ==
  IF intensity = "casual"
  THEN IF Lt(d, 90) THEN NoFuel
       ELSE IF Lt(d, 150) THEN Tier(20, 75, 60)
       ELSE Tier(30, 75, 50)
  ELSE IF intensity = "moderate"
  THEN IF Lt(d, 75) THEN NoFuel
       ELSE IF Lt(d, 90) THEN Tier(25, 60, 60)
       ELSE IF Lt(d, 150) THEN Tier(45, 60, 35)
       ELSE Tier(60, 60, 25)
  ELSE IF intensity = "hard"
  THEN IF Lt(d, 60) THEN NoFuel
       ELSE IF Lt(d, 90) THEN Tier(50, 45, 30)
       ELSE Tier(70, 45, 20)
  ELSE NoFuel

\* Mutant: an event at the very end of the ride is still pushed.
RECURSIVE EmitEvery_PastEnd(_, _, _, _, _)
EmitEvery_PastEnd(currentTime, interval, durationMinutes, type, amount) ==
  IF currentTime <= durationMinutes
  THEN <<FuelAlert(currentTime, type, amount, "normal")>>
       \o EmitEvery_PastEnd(currentTime + interval, interval, durationMinutes, type, amount)
  ELSE <<>>

\* while (currentTime < durationMinutes) { push; currentTime += interval }
RECURSIVE EmitEvery(_, _, _, _, _)
EmitEvery(currentTime, interval, durationMinutes, type, amount) ==
  IF Lt(currentTime, durationMinutes)
  THEN <<FuelAlert(currentTime, type, amount, "normal")>>
       \o EmitEvery(currentTime + interval, interval, durationMinutes, type, amount)
  ELSE <<>>

\* The base carb events; amount is carbPerIntake, the grams of the text.
CarbAlerts(durationMinutes, intensity) ==
  LET tier == CarbTier(intensity, durationMinutes)
  IN IF tier.carbRate > 0 /\ tier.startTime # <<>>
     THEN EmitEvery(tier.startTime[1], tier.carbInterval, durationMinutes, "carbs",
                    Round(tier.carbRate * tier.carbInterval, 60))
     ELSE <<>>

\* Mutant: the start time of the climb is cut to the minute, not rounded.
ClimbStartTime_Floor(climb, route, durationMinutes) ==
  IF route.distance = NaN \/ climb.startDistance = NaN \/ durationMinutes = NaN
     \/ route.distance = 0
  THEN NaN
  ELSE (climb.startDistance * durationMinutes) \div route.distance

\* Math.round((climb.startDistance / avgSpeed) * 60) with
\* avgSpeed = routeData.distance / (durationMinutes / 60).  A distance of 0
\* makes the quotient Infinity or NaN; both fail the later test
\* preFuelTime < durationMinutes, and NaN stands for both.
ClimbStartTime(climb, route, durationMinutes) ==
  IF route.distance = NaN \/ climb.startDistance = NaN \/ durationMinutes = NaN
     \/ route.distance = 0
  THEN NaN
  ELSE Round(climb.startDistance * durationMinutes, route.distance)

\* Math.max(5, climbStartTime - 15)
PreFuelTime(climbStartTime) ==
  IF climbStartTime = NaN THEN NaN
  ELSE IF climbStartTime - 15 > 5 THEN climbStartTime - 15 ELSE 5

\* Mutant: only an alert fewer than 5 minutes away counts as nearby.
NearbyAlert_Within5(schedule, preFuelTime) ==
  /\ preFuelTime # NaN
  /\ \E k \in 1..Len(schedule) : Abs(schedule[k].time - preFuelTime) < 5

\* schedule.find(alert => Math.abs(alert.time - preFuelTime) < 10)
NearbyAlert(schedule, preFuelTime) ==
  /\ preFuelTime # NaN
  /\ \E k \in 1..Len(schedule) : Abs(schedule[k].time - preFuelTime) < 10

\* The number in elevationDisplay: feet for 'US', metres for 'UK'.
ElevationDisplay(unit, elevationGain) ==
  IF unit = "US" THEN Round(elevationGain * 328084, 1000000)
  ELSE Round(elevationGain, 10)

\* routeData.climbs.forEach(...): the climbs in order, each against the
\* schedule as the climbs before it left it.
RECURSIVE WithClimbAlerts(_, _, _, _, _)
WithClimbAlerts(schedule, climbs, route, durationMinutes, unit) ==
  IF climbs = <<>> THEN schedule
  ELSE LET climb == Head(climbs)
           preFuelTime == PreFuelTime(ClimbStartTime(climb, route, durationMinutes))
           pushed ==
             IF /\ climb.elevationGain > 100 * 10
                /\ ~NearbyAlert(schedule, preFuelTime)
                /\ Lt(preFuelTime, durationMinutes)
             THEN Append(schedule,
                         FuelAlert(preFuelTime, "carbs",
                                   ElevationDisplay(unit, climb.elevationGain), "critical"))
             ELSE schedule
       IN WithClimbAlerts(pushed, Tail(climbs), route, durationMinutes, unit)

\* Mutant: an absent profile counts as a moderate sweater.
SweatRateOf_DefaultModerate(profile) ==
  IF profile = <<>> THEN "moderate" ELSE profile[1].sweatRate

\* nutritionProfile?.sweatRate
SweatRateOf(profile) == IF profile = <<>> THEN "undefined" ELSE profile[1].sweatRate

NoElectrolytes ==
  [needsElectrolytes |-> FALSE, electrolyteRate |-> 0, electrolyteInterval |-> 0]

Electrolytes(rate, interval) ==
  [needsElectrolytes |-> TRUE, electrolyteRate |-> rate, electrolyteInterval |-> interval]

\* Mutant: the 300 mg rule starts at 75 degrees, not above.
ElectrolytePlan_WarmFrom75(durationMinutes, temp, sweatRate) ==
  IF Ge(durationMinutes, 90)
  THEN IF temp > 80 \/ sweatRate = "heavy" THEN Electrolytes(500, 60)
       ELSE IF temp >= 75 \/ sweatRate = "moderate" THEN Electrolytes(300, 75)
       ELSE NoElectrolytes
  ELSE IF Ge(durationMinutes, 60) /\ Lt(durationMinutes, 90)
  THEN IF temp > 85 \/ sweatRate = "heavy" THEN Electrolytes(400, 60)
       ELSE NoElectrolytes
  ELSE NoElectrolytes

\* lines 838-861: whether sodium is needed, how much and how often.
ElectrolytePlan(durationMinutes, temp, sweatRate) ==
  IF Ge(durationMinutes, 90)
  THEN IF temp > 80 \/ sweatRate = "heavy" THEN Electrolytes(500, 60)
       ELSE IF temp > 75 \/ sweatRate = "moderate" THEN Electrolytes(300, 75)
       ELSE NoElectrolytes
  ELSE IF Ge(durationMinutes, 60) /\ Lt(durationMinutes, 90)
  THEN IF temp > 85 \/ sweatRate = "heavy" THEN Electrolytes(400, 60)
       ELSE NoElectrolytes
  ELSE NoElectrolytes

\* The electrolyte events; amount is electrolyteRate, the mg of the text.
ElectrolyteAlerts(durationMinutes, temp, profile) ==
  LET plan == ElectrolytePlan(durationMinutes, temp, SweatRateOf(profile))
  IN IF plan.needsElectrolytes
     THEN EmitEvery(60, plan.electrolyteInterval, durationMinutes, "electrolytes",
                    plan.electrolyteRate)
     ELSE <<>>

\* Array.prototype.sort with (a, b) => a.time - b.time is stable: alert goes
\* after the alerts of the same time that are already placed.
RECURSIVE InsertByTime(_, _)
InsertByTime(sorted, alert) ==
  IF sorted = <<>> THEN <<alert>>
  ELSE IF alert.time < Head(sorted).time THEN <<alert>> \o sorted
  ELSE <<Head(sorted)>> \o InsertByTime(Tail(sorted), alert)

RECURSIVE SortByTime(_)
SortByTime(schedule) ==
  IF schedule = <<>> THEN <<>>
  ELSE InsertByTime(SortByTime(SubSeq(schedule, 1, Len(schedule) - 1)),
                    schedule[Len(schedule)])

\* The electrolyte events are pushed after the carb events and the whole is
\* sorted (lines 864-878).
\* Mutant: an electrolyte event at the minute of a carb event is dropped.
Assemble_DropClashes(carbs, electrolytes) ==
  SortByTime(carbs \o SelectSeq(electrolytes,
                                LAMBDA e : \A k \in 1..Len(carbs) : carbs[k].time # e.time))

Assemble(carbs, electrolytes) == SortByTime(carbs \o electrolytes)

generateSchedule(durationMinutes, intensity, temp, profile, route, unit) ==
  IF ShortRide(durationMinutes) THEN <<>>
  ELSE LET base == CarbAlerts(durationMinutes, intensity)
           carbs ==
             IF route # <<>> /\ Len(route[1].climbs) > 0 /\ intensity # "casual"
             THEN WithClimbAlerts(base, route[1].climbs, route[1], durationMinutes, unit)
             ELSE base
       IN Assemble(carbs, ElectrolyteAlerts(durationMinutes, temp, profile))

(***************************************************************************)
(* parseGPXFile: the track-point loop.  scan holds the loop's locals: n is *)
(* trackPoints.length, i the index of the next point, done says that the   *)
(* route has been published.  A track point is [numeric, step, ele]:       *)
(* whether its lat and lon parse to numbers, the great-circle distance     *)
(* from the point before it when both are numeric, and its elevation.      *)
(***************************************************************************)
\* GPXValidator.validateGPXStructure checks the coordinates of the first
\* SampleSize track points only.
SampleSize == 100

NoScan ==
  [n |-> 0, i |-> 0, totalDistance |-> 0, totalElevationGain |-> 0,
   currentClimb |-> <<>>, climbs |-> <<>>, lastPoint |-> <<>>, done |-> TRUE]

\* The loop's locals before the first point of a track of n points.
NewScan(n) == [NoScan EXCEPT !.n = n, !.done = FALSE]

\* calculateDistance on the coordinates of two points: a non-negative
\* number for numeric coordinates, NaN as soon as one of them is NaN.
calculateDistance(lastNumeric, numeric, step) ==
  IF lastNumeric /\ numeric THEN step ELSE NaN

\* The climb pushed when a climb ends at distance totalDistance; grade is in
\* hundredths of a percent, cut to a whole number.
ClosedClimb(climb, totalDistance) ==
  LET climbDistance == Minus(totalDistance, climb.startDistance)
  IN [startDistance |-> climb.startDistance,
      endDistance |-> totalDistance,
      elevationGain |-> climb.elevationGain,
      grade |-> IF Gt(climbDistance, 0)
                THEN (climb.elevationGain * 1000) \div climbDistance
                ELSE 0]

\* One pass of the loop body (lines 187-238) for the point at index s.i.
ScanPoint(s, point) ==
  IF s.lastPoint = <<>>
  THEN [s EXCEPT !.i = @ + 1,
                 !.lastPoint = <<[numeric |-> point.numeric, ele |-> point.ele,
                                  dist |-> s.totalDistance]>>]
  ELSE LET last == s.lastPoint[1]
           segmentDistance == calculateDistance(last.numeric, point.numeric, point.step)
           total == Plus(s.totalDistance, segmentDistance)
           elevationChange == point.ele - last.ele
           climbing == elevationChange > 5 /\ Gt(segmentDistance, 0)
           ends == /\ ~climbing
                   /\ s.currentClimb # <<>>
                   /\ (elevationChange < 0 - 5 \/ s.i = s.n - 1)
           open == IF s.currentClimb = <<>>
                   THEN [startDistance |-> last.dist, startElevation |-> last.ele,
                         elevationGain |-> 0]
                   ELSE s.currentClimb[1]
       IN [s EXCEPT
             !.i = @ + 1,
             !.totalDistance = total,
             !.totalElevationGain = IF elevationChange > 0 THEN @ + elevationChange ELSE @,
             !.currentClimb = IF climbing
                              THEN <<[open EXCEPT !.elevationGain = @ + elevationChange]>>
                              ELSE IF ends THEN <<>> ELSE @,
             !.climbs = IF ends /\ s.currentClimb[1].elevationGain > 30 * 10
                        THEN Append(@, ClosedClimb(s.currentClimb[1], total))
                        ELSE @,
             !.lastPoint = <<[numeric |-> point.numeric, ele |-> point.ele, dist |-> total]>>]

\* const route: RouteData (lines 261-267), without the name.
RouteOf(s, unit) ==
  [distance |-> s.totalDistance,
   elevationGain |-> s.totalElevationGain,
   estimatedTime |-> FlatTime(unit, s.totalDistance),
   climbs |-> s.climbs]

(***************************************************************************)
(* Inputs of the planner page                                              *)
(***************************************************************************)
Durations == {59, 60, 74, 75, 89, 90, 149, 150, 240}

Intensities == {"casual", "moderate", "hard"}

PlannerTemps == {75, 80, 85, 86}

Profile(sweatRate, intensity) == [sweatRate |-> sweatRate, intensity |-> intensity]

\* No saved profile, or the profile the survey saved.
Profiles ==
  {<<>>, <<Profile("light", "easy")>>, <<Profile("moderate", "moderate")>>,
   <<Profile("heavy", "hard")>>}

Units == {"US", "UK"}

\* A climb as the scan records it.
Climb(startDistance, endDistance, elevationGain) ==
  ClosedClimb([startDistance |-> startDistance, startElevation |-> 0,
               elevationGain |-> elevationGain], endDistance)

RECURSIVE SumGain(_)
SumGain(climbs) ==
  IF climbs = <<>> THEN 0 ELSE Head(climbs).elevationGain + SumGain(Tail(climbs))

\* A route as parseGPXFile builds it (estimatedTime is set when it is loaded).
Route(distance, climbs) ==
  [distance |-> distance, elevationGain |-> SumGain(climbs), estimatedTime |-> 0,
   climbs |-> climbs]

\* Routes of 40 km: without climbs; with a climb from the start; with a climb
\* of exactly 100 m; with two climbs 2 km apart; with a climb past half way;
\* with two climbs far apart; and a route whose scan met a coordinate that
\* is not a number after a climb had begun.
Routes ==
  {Route(40000, <<>>),
   Route(40000, <<Climb(0, 3000, 1500)>>),
   Route(40000, <<Climb(13000, 14000, 1000)>>),
   Route(40000, <<Climb(13000, 14000, 1010), Climb(15000, 18000, 2500)>>),
   Route(40000, <<Climb(22500, 25000, 1200)>>),
   Route(40000, <<Climb(10000, 12000, 1500), Climb(30000, 33000, 1100)>>),
   Route(NaN, <<Climb(3000, NaN, 1200)>>)}

\* A call of handleGPXUpload: where it is suspended, the file it was given and
\* the error it ended with.
NoUpload == [pc |-> "idle", file |-> <<>>, error |-> ""]

Uploads == 1..MaxUploads

\* Ride type, ride time and distance boxes as mounted (lines 49-52).
RideMounted ==
  /\ rideType = "time"
  /\ rideTime = 60
  /\ rideMiles = 20 * 10
  /\ rideKilometers = 32 * 10

\* No file selected yet (lines 73-74).
UploadMounted ==
  /\ isParsingGPX = FALSE
  /\ gpxError = ""
  /\ uploads = [u \in Uploads |-> NoUpload]
  /\ selection = <<>>
  /\ parsedXml = {}

\* No ride under way (lines 54-57).
AlertsMounted ==
  /\ isRiding = FALSE
  /\ elapsedTime = 0
  /\ completedAlerts = {}

\* The page as mounted (lines 49-74) after its first effect has run.
PlannerMounted ==
  /\ unitSystem = "US"
  /\ effectiveRideTime = 60
  /\ rideIntensity = "casual"
  /\ currentTemp = 75
  /\ nutritionProfile = <<>>
  /\ routeData = <<>>
  /\ fuelSchedule = <<>>
  /\ scan = NoScan
  /\ RideMounted
  /\ UploadMounted
  /\ AlertsMounted

(***************************************************************************)
(* Actions                                                                 *)
(***************************************************************************)
Idle == [pc |-> "idle", key |-> "", zip |-> <<>>, stateName |-> "", answers |-> FALSE]

\* The requests that may be in flight together (SpecConc).
Requests == 1..MaxInFlight

NoPending == [r \in Requests |-> Idle]

NoRequest == [key |-> "", zip |-> <<>>, accepted |-> FALSE, calls |-> {}, up |-> NotAsked]

\* Observation, kept apart from the limiter's own record: the requests a
\* caller has sent in its current window (n, rejected ones included) and the
\* instant the window ends (until = the opening request's time + one hour).
SeenAfter(key, t) ==
  IF seen[key].n = 0 \/ t > seen[key].until
  THEN [n |-> 1, until |-> t + 60 * 60 * 1000]
  ELSE [n |-> seen[key].n + 1, until |-> seen[key].until]

\* One GET request, handled to completion.
HandleGET(key, zip, up) ==
  LET out == GETOutcome(rateLimitStore, weatherCache, apiKeySet, key, zip, up, now)
  IN /\ rateLimitStore' = out.store
     /\ weatherCache' = out.cache
     /\ response' = out.resp
     /\ lastRequest' = [key |-> key, zip |-> zip,
                        accepted |-> checkRateLimit(rateLimitStore, key, now).ok,
                        calls |-> out.calls, up |-> up]
     /\ UNCHANGED <<now, apiKeySet, inflight>>

\* The request reaches the first upstream call (line 134).
ReachesFetch(key, zip) ==
  /\ checkRateLimit(rateLimitStore, key, now).ok
  /\ EarlyResponse(weatherCache, apiKeySet, zip, now) = <<>>

Request ==
  /\ reqs < MaxRequests
  /\ \E key \in Callers, zip \in ZipInputs :
       /\ \E up \in IF ReachesFetch(key, zip) THEN UpstreamBehaviours ELSE {NotAsked} :
            HandleGET(key, zip, up)
       /\ seen' = [seen EXCEPT ![key] = SeenAfter(key, now)]
  /\ reqs' = reqs + 1
  /\ UNCHANGED probe
  /\ UNCHANGED <<pending, plannerVars>>

AdvanceTime ==
  /\ now < MaxTicks * Tick
  /\ now' = now + Tick
  /\ response' = NoResponse
  /\ lastRequest' = NoRequest
  /\ UNCHANGED <<apiKeySet, rateLimitStore, weatherCache, inflight, reqs, seen, probe>>
  /\ UNCHANGED <<pending, plannerVars>>

\* The record of a caller that sent n requests at time 0.
WarmRecord(n) == [count |-> n, resetTime |-> RATE_LIMIT_WINDOW]

\* The service at time 0: just constructed, or after the caller has sent
\* RATE_LIMIT - 2 requests without a postal code at time 0 (they are counted
\* by checkRateLimit and answered 400, so the cache is still empty).  SpecRL
\* reaches that record from construction.
Init ==
  /\ now = 0
  /\ apiKeySet \in BOOLEAN
  /\ \/ /\ rateLimitStore = EmptyMap
        /\ seen = [c \in Callers |-> [n |-> 0, until |-> 0]]
     \/ /\ rateLimitStore = [c \in Callers |-> WarmRecord(RATE_LIMIT - 2)]
        /\ seen = [c \in Callers |-> [n |-> RATE_LIMIT - 2, until |-> 60 * 60 * 1000]]
  /\ weatherCache = EmptyMap
  /\ response = NoResponse
  /\ lastRequest = NoRequest
  /\ inflight = Idle
  /\ reqs = 0
  /\ pending = NoPending
  /\ PlannerMounted
  /\ probe = [on |-> FALSE, start |-> 0, accepted |-> 0]

Next == Request \/ AdvanceTime

Spec == Init /\ [][Next]_vars

(***************************************************************************)
(* SpecRL: the rate limiter from construction, under requests that carry   *)
(* no postal code (checkRateLimit, then the 400 of line 99), with one      *)
(* rolling hour [probe.start, probe.start + RATE_LIMIT_WINDOW) observed.   *)
(***************************************************************************)
ProbeOff == [on |-> FALSE, start |-> 0, accepted |-> 0]

InProbe(t) == probe.on /\ t >= probe.start /\ t < probe.start + RATE_LIMIT_WINDOW

RLRequest ==
  /\ \E key \in Callers :
       /\ HandleGET(key, Null, NotAsked)
       /\ probe' = IF InProbe(now) /\ checkRateLimit(rateLimitStore, key, now).ok
                   THEN [probe EXCEPT !.accepted = @ + 1]
                   ELSE probe
  /\ UNCHANGED <<reqs, seen>>
  /\ UNCHANGED <<pending, plannerVars>>

\* The clock moves on; the observed hour may start at the new instant.
RLAdvanceTime ==
  /\ now < MaxTicks * Tick
  /\ now' = now + Tick
  /\ response' = NoResponse
  /\ lastRequest' = NoRequest
  /\ \/ probe' = probe
     \/ /\ ~probe.on
        /\ probe' = [on |-> TRUE, start |-> now', accepted |-> 0]
  /\ UNCHANGED <<apiKeySet, rateLimitStore, weatherCache, inflight, reqs, seen>>
  /\ UNCHANGED <<pending, plannerVars>>

InitRL ==
  /\ now = 0
  /\ apiKeySet = TRUE
  /\ rateLimitStore = EmptyMap
  /\ weatherCache = EmptyMap
  /\ response = NoResponse
  /\ lastRequest = NoRequest
  /\ inflight = Idle
  /\ reqs = 0
  /\ pending = NoPending
  /\ PlannerMounted
  /\ seen = [c \in Callers |-> [n |-> 0, until |-> 0]]
  /\ probe \in {ProbeOff, [on |-> TRUE, start |-> 0, accepted |-> 0]}

NextRL == RLRequest \/ RLAdvanceTime

SpecRL == InitRL /\ [][NextRL]_vars

(***************************************************************************)
(* SpecAsync: the handler suspended at its awaits.  GET runs synchronously *)
(* to its first fetch() (line 134) and resumes when the awaited upstream   *)
(* call settles; the code passes fetch() no signal and sets no timer, so a *)
(* call that never settles resumes nothing.  inflight.answers says whether *)
(* the call now awaited will ever settle.                                  *)
(***************************************************************************)
Awaiting(pc, key, zip, stateName, answers) ==
  [pc |-> pc, key |-> key, zip |-> zip, stateName |-> stateName, answers |-> answers]

\* The handler returns: the response is sent and nothing stays suspended.
Return(resp) ==
  /\ response' = resp
  /\ inflight' = Idle

\* lines 74-142: rate limit, validation, cache check, then the geocoding call.
AsyncStart ==
  /\ inflight.pc = "idle"
  /\ reqs < MaxRequests
  /\ reqs' = reqs + 1
  /\ \E key \in Callers, zip \in ZipInputs :
       LET rl == checkRateLimit(rateLimitStore, key, now)
           early == EarlyResponse(weatherCache, apiKeySet, zip, now)
       IN /\ rateLimitStore' = rl.store
          /\ seen' = [seen EXCEPT ![key] = SeenAfter(key, now)]
          /\ IF ~rl.ok
             THEN /\ Return(RateLimitResponse)
                  /\ lastRequest' = [key |-> key, zip |-> zip, accepted |-> FALSE, calls |-> {},
                                     up |-> NotAsked]
             ELSE IF early # <<>>
             THEN /\ Return(early[1])
                  /\ lastRequest' = [key |-> key, zip |-> zip, accepted |-> TRUE, calls |-> {},
                                     up |-> NotAsked]
             ELSE /\ \E a \in BOOLEAN : inflight' = Awaiting("geo", key, zip, "", a)
                  /\ response' = NoResponse
                  /\ lastRequest' = [key |-> key, zip |-> zip, accepted |-> TRUE,
                                     calls |-> {"geo"}, up |-> NotAsked]
  /\ UNCHANGED <<now, apiKeySet, weatherCache, probe>>
  /\ UNCHANGED <<pending, plannerVars>>

\* lines 144-166: the geocoding call settles.
GeoSettles ==
  /\ inflight.pc = "geo"
  /\ inflight.answers
  /\ \E g \in GeoAnswers :
       IF g = "throws" \/ g = "non2xx"
       THEN /\ Return(CatchResponse(weatherCache, inflight.zip, now))
            /\ UNCHANGED lastRequest
       ELSE IF g = "404"
       THEN /\ Return(ErrorResponse(404, "Location not found"))
            /\ UNCHANGED lastRequest
       ELSE /\ \E a \in BOOLEAN : inflight' = [inflight EXCEPT !.pc = "reverse", !.answers = a]
            /\ lastRequest' = [lastRequest EXCEPT !.calls = @ \cup {"reverse"}]
            /\ UNCHANGED response
  /\ UNCHANGED <<now, apiKeySet, rateLimitStore, weatherCache, reqs, seen, probe>>
  /\ UNCHANGED <<pending, plannerVars>>

\* lines 168-188: the reverse-geocoding call settles.
ReverseSettles ==
  /\ inflight.pc = "reverse"
  /\ inflight.answers
  /\ \E r \in ReverseAnswers :
       IF r = "throws"
       THEN /\ Return(CatchResponse(weatherCache, inflight.zip, now))
            /\ UNCHANGED lastRequest
       ELSE /\ \E a \in BOOLEAN :
                 inflight' = [inflight EXCEPT !.pc = "weather", !.answers = a,
                                              !.stateName = StateNameOf(r)]
            /\ lastRequest' = [lastRequest EXCEPT !.calls = @ \cup {"weather"}]
            /\ UNCHANGED response
  /\ UNCHANGED <<now, apiKeySet, rateLimitStore, weatherCache, reqs, seen, probe>>
  /\ UNCHANGED <<pending, plannerVars>>

\* lines 190-227: the current-conditions call settles.
WeatherSettles ==
  /\ inflight.pc = "weather"
  /\ inflight.answers
  /\ \E w \in WeatherAnswers, temp \in Temps :
       IF w # "ok"
       THEN /\ Return(CatchResponse(weatherCache, inflight.zip, now))
            /\ UNCHANGED weatherCache
       ELSE LET data == [location |-> LocationDisplay(GeoName(inflight.zip), inflight.stateName),
                         temperature |-> temp]
            IN /\ weatherCache' = CacheWrite(weatherCache, inflight.zip, data, now)
               /\ Return(FreshResponse(data))
  /\ UNCHANGED <<now, apiKeySet, rateLimitStore, lastRequest, reqs, seen, probe>>
  /\ UNCHANGED <<pending, plannerVars>>

\* A step that resumes the suspended handler.
Resume == GeoSettles \/ ReverseSettles \/ WeatherSettles

\* The clock moves on while a request may be suspended.
AsyncAdvanceTime ==
  /\ now < MaxTicks * Tick
  /\ now' = now + Tick
  /\ IF inflight.pc = "idle"
     THEN response' = NoResponse /\ lastRequest' = NoRequest
     ELSE UNCHANGED <<response, lastRequest>>
  /\ UNCHANGED <<apiKeySet, rateLimitStore, weatherCache, inflight, reqs, seen, probe>>
  /\ UNCHANGED <<pending, plannerVars>>

NextAsync == AsyncStart \/ GeoSettles \/ ReverseSettles \/ WeatherSettles \/ AsyncAdvanceTime

SpecAsync == Init /\ [][NextAsync]_vars

(***************************************************************************)
(* SpecConc: up to MaxInFlight requests of one caller in flight together.  *)
(* A handler runs without interruption from its entry to its first await   *)
(* (line 134) and from one await to the next: checkRateLimit (lines 51-66) *)
(* holds no await, so it runs inside the step that starts the request.     *)
(* probe counts the requests accepted in the caller's current window.      *)
(***************************************************************************)
serverVars ==
  <<now, apiKeySet, rateLimitStore, weatherCache, response, lastRequest,
    inflight, reqs, seen, probe>>

NewWindow(key, t) == seen[key].n = 0 \/ t > seen[key].until

\* The requests of SpecConc carry one postal code, or none.
ConcZips == {ZipA, Null}

\* lines 74-142 for one request; it suspends at the geocoding call if a
\* request slot r is free.
ConcStart ==
  /\ reqs < MaxRequests
  /\ reqs' = reqs + 1
  /\ \E key \in Callers, zip \in ConcZips :
       LET rl == checkRateLimit(rateLimitStore, key, now)
           early == EarlyResponse(weatherCache, apiKeySet, zip, now)
       IN /\ rateLimitStore' = rl.store
          /\ seen' = [seen EXCEPT ![key] = SeenAfter(key, now)]
          /\ probe' = [on |-> TRUE,
                       start |-> IF NewWindow(key, now) THEN now ELSE probe.start,
                       accepted |-> (IF NewWindow(key, now) THEN 0 ELSE probe.accepted)
                                    + (IF rl.ok THEN 1 ELSE 0)]
          /\ lastRequest' = [key |-> key, zip |-> zip, accepted |-> rl.ok,
                             calls |-> IF rl.ok /\ early = <<>> THEN {"geo"} ELSE {},
                             up |-> NotAsked]
          /\ IF ~rl.ok
             THEN response' = RateLimitResponse /\ UNCHANGED pending
             ELSE IF early # <<>>
             THEN response' = early[1] /\ UNCHANGED pending
             ELSE /\ \E r \in Requests :
                       /\ pending[r].pc = "idle"
                       /\ \A q \in Requests : q < r => pending[q].pc # "idle"
                       /\ pending' = [pending EXCEPT ![r] = Awaiting("geo", key, zip, "", TRUE)]
                  /\ response' = NoResponse
  /\ UNCHANGED <<now, apiKeySet, weatherCache, inflight, plannerVars>>

\* The handler of request r returns.
ConcReturn(r, resp) ==
  /\ response' = resp
  /\ pending' = [pending EXCEPT ![r] = Idle]

\* lines 144-166 for request r.
ConcGeoSettles ==
  /\ \E r \in Requests :
       /\ pending[r].pc = "geo"
       /\ \E g \in GeoAnswers :
            IF g = "throws" \/ g = "non2xx"
            THEN ConcReturn(r, CatchResponse(weatherCache, pending[r].zip, now))
            ELSE IF g = "404"
            THEN ConcReturn(r, ErrorResponse(404, "Location not found"))
            ELSE /\ pending' = [pending EXCEPT ![r].pc = "reverse"]
                 /\ UNCHANGED response
  /\ UNCHANGED <<now, apiKeySet, rateLimitStore, weatherCache, lastRequest, inflight,
                 reqs, seen, probe, plannerVars>>

\* lines 168-188 for request r.
ConcReverseSettles ==
  /\ \E r \in Requests :
       /\ pending[r].pc = "reverse"
       /\ \E a \in ReverseAnswers :
            IF a = "throws"
            THEN ConcReturn(r, CatchResponse(weatherCache, pending[r].zip, now))
            ELSE /\ pending' = [pending EXCEPT ![r].pc = "weather",
                                               ![r].stateName = StateNameOf(a)]
                 /\ UNCHANGED response
  /\ UNCHANGED <<now, apiKeySet, rateLimitStore, weatherCache, lastRequest, inflight,
                 reqs, seen, probe, plannerVars>>

\* lines 190-227 for request r.
ConcWeatherSettles ==
  /\ \E r \in Requests :
       /\ pending[r].pc = "weather"
       /\ \E w \in WeatherAnswers, temp \in Temps :
            IF w # "ok"
            THEN /\ ConcReturn(r, CatchResponse(weatherCache, pending[r].zip, now))
                 /\ UNCHANGED weatherCache
            ELSE LET data == [location |-> LocationDisplay(GeoName(pending[r].zip),
                                                            pending[r].stateName),
                              temperature |-> temp]
                 IN /\ weatherCache' = CacheWrite(weatherCache, pending[r].zip, data, now)
                    /\ ConcReturn(r, FreshResponse(data))
  /\ UNCHANGED <<now, apiKeySet, rateLimitStore, lastRequest, inflight, reqs, seen,
                 probe, plannerVars>>

ConcAdvanceTime ==
  /\ now < MaxTicks * Tick
  /\ now' = now + Tick
  /\ UNCHANGED <<apiKeySet, rateLimitStore, weatherCache, response, lastRequest,
                 inflight, reqs, seen, probe, pending, plannerVars>>

\* The service at time 0 with its key set: just constructed, or after the
\* caller's RATE_LIMIT - 2 requests of Init, all of them accepted.
InitConc ==
  /\ now = 0
  /\ apiKeySet = TRUE
  /\ \E n \in {0, RATE_LIMIT - 2} :
       /\ rateLimitStore = IF n = 0 THEN EmptyMap ELSE [c \in Callers |-> WarmRecord(n)]
       /\ seen = [c \in Callers |-> [n |-> n, until |-> IF n = 0 THEN 0 ELSE 60 * 60 * 1000]]
       /\ probe = [on |-> n > 0, start |-> 0, accepted |-> n]
  /\ weatherCache = EmptyMap
  /\ response = NoResponse
  /\ lastRequest = NoRequest
  /\ inflight = Idle
  /\ reqs = 0
  /\ pending = NoPending
  /\ PlannerMounted

NextConc ==
  ConcStart \/ ConcGeoSettles \/ ConcReverseSettles \/ ConcWeatherSettles \/ ConcAdvanceTime

SpecConc == InitConc /\ [][NextConc]_vars

(***************************************************************************)
(* SpecSched: the planner page.  Every change of an input is followed by   *)
(* the effect of line 979, which replaces fuelSchedule by                  *)
(* generateSchedule(getEffectiveRideTime()) for the new inputs.  The page  *)
(* starts as mounted or with a route uploaded; uploads themselves are the  *)
(* steps of SpecScan and SpecUpload.                                       *)
(***************************************************************************)
Replan(durationMinutes, intensity, temp, profile, route, unit) ==
  /\ effectiveRideTime' = durationMinutes
  /\ rideIntensity' = intensity
  /\ currentTemp' = temp
  /\ nutritionProfile' = profile
  /\ routeData' = route
  /\ unitSystem' = unit
  /\ fuelSchedule' = generateSchedule(durationMinutes, intensity, temp, profile, route, unit)

\* setRouteData(route), setRideType and the distance box set to the rounded
\* distance (lines 269-283): the ride is planned by the route's distance from
\* then on.
PublishRoute(route) ==
  /\ rideType' = IF unitSystem = "US" THEN "miles" ELSE "kilometers"
  /\ rideMiles' = IF unitSystem = "US" THEN RoundedMiles(route.distance) ELSE rideMiles
  /\ rideKilometers' =
       IF unitSystem = "US" THEN rideKilometers ELSE RoundedKm(route.distance)
  /\ rideTime' = rideTime
  /\ Replan(getEffectiveRideTime(rideType', rideTime', rideMiles', rideKilometers'),
            rideIntensity, currentTemp, nutritionProfile, <<route>>, unitSystem)

\* The rider chooses a ride time; the select is shown when planning by time.
SetRideTime ==
  /\ rideType = "time"
  /\ \E d \in Durations :
       /\ rideTime' = d
       /\ Replan(getEffectiveRideTime(rideType, d, rideMiles, rideKilometers),
                 rideIntensity, currentTemp, nutritionProfile, routeData, unitSystem)
  /\ UNCHANGED <<rideType, rideMiles, rideKilometers>>
  /\ UNCHANGED <<scan, uploadVars, alertVars, pending, serverVars>>

\* One of the Ride Planning Method buttons.
SetRideType(type) ==
  /\ rideType' = type
  /\ Replan(getEffectiveRideTime(type, rideTime, rideMiles, rideKilometers),
            rideIntensity, currentTemp, nutritionProfile, routeData, unitSystem)
  /\ UNCHANGED <<rideTime, rideMiles, rideKilometers>>
  /\ UNCHANGED <<scan, uploadVars, alertVars, pending, serverVars>>

SetRideIntensity ==
  /\ \E intensity \in Intensities :
       Replan(effectiveRideTime, intensity, currentTemp, nutritionProfile, routeData,
              unitSystem)
  /\ UNCHANGED <<rideVars, scan, uploadVars, alertVars, pending, serverVars>>

\* fetchWeather sets the temperature it was given, or 75.
SetCurrentTemp ==
  /\ \E temp \in PlannerTemps :
       Replan(effectiveRideTime, rideIntensity, temp, nutritionProfile, routeData,
              unitSystem)
  /\ UNCHANGED <<rideVars, scan, uploadVars, alertVars, pending, serverVars>>

\* The saved profile is loaded, or the profile is cleared.
SetNutritionProfile ==
  /\ \E profile \in Profiles :
       Replan(effectiveRideTime, rideIntensity, currentTemp, profile, routeData,
              unitSystem)
  /\ UNCHANGED <<rideVars, scan, uploadVars, alertVars, pending, serverVars>>

SetUnitSystem ==
  /\ \E unit \in Units :
       Replan(effectiveRideTime, rideIntensity, currentTemp, nutritionProfile, routeData,
              unit)
  /\ UNCHANGED <<rideVars, scan, uploadVars, alertVars, pending, serverVars>>

\* setRouteData(null)
ClearRoute ==
  /\ routeData # <<>>
  /\ Replan(effectiveRideTime, rideIntensity, currentTemp, nutritionProfile, <<>>,
            unitSystem)
  /\ UNCHANGED <<rideVars, scan, uploadVars, alertVars, pending, serverVars>>

\* The server as constructed; the page's specifications leave it alone.
ServerIdle ==
  /\ now = 0
  /\ apiKeySet = TRUE
  /\ rateLimitStore = EmptyMap
  /\ weatherCache = EmptyMap
  /\ response = NoResponse
  /\ lastRequest = NoRequest
  /\ inflight = Idle
  /\ reqs = 0
  /\ seen = [c \in Callers |-> [n |-> 0, until |-> 0]]
  /\ probe = ProbeOff
  /\ pending = NoPending

\* The mounted page after parseGPXFile has published a route.
RouteUploaded(route) ==
  /\ unitSystem = "US"
  /\ rideType = "miles"
  /\ rideTime = 60
  /\ rideMiles = RoundedMiles(route.distance)
  /\ rideKilometers = 32 * 10
  /\ effectiveRideTime = getEffectiveRideTime(rideType, rideTime, rideMiles, rideKilometers)
  /\ rideIntensity = "casual"
  /\ currentTemp = 75
  /\ nutritionProfile = <<>>
  /\ routeData = <<[route EXCEPT !.estimatedTime = FlatTime("US", route.distance)]>>
  /\ fuelSchedule = generateSchedule(effectiveRideTime, rideIntensity, currentTemp,
                                     nutritionProfile, routeData, unitSystem)
  /\ scan = NoScan
  /\ UploadMounted
  /\ AlertsMounted

\* The page as mounted, or with a route uploaded since.
InitSched ==
  /\ ServerIdle
  /\ \/ PlannerMounted
     \/ \E route \in Routes : RouteUploaded(route)

NextSched ==
  \/ SetRideType("time")
  \/ SetRideTime
  \/ SetRideIntensity
  \/ SetCurrentTemp
  \/ SetNutritionProfile
  \/ SetUnitSystem
  \/ ClearRoute

SpecSched == InitSched /\ [][NextSched]_vars

(***************************************************************************)
(* SpecScan: parseGPXFile on one track, point by point.  The scan starts   *)
(* at the first point of a track of at most MaxPoints points, or at point  *)
(* SampleSize of a longer track whose first SampleSize points passed the   *)
(* validator: 3 km level, then 40 m up over 2 km (the climb still open),   *)
(* or 1 km level, 40 m up over 2 km, 0.6 m down over 500 m, 1.5 km level.  *)
(***************************************************************************)
Elevations == {0, 5, 11, 200, 400, 500}

Steps == {0, 500, 2000}

SampledScans(n) ==
  {[n |-> n, i |-> SampleSize, totalDistance |-> 5000, totalElevationGain |-> 400,
    currentClimb |-> <<[startDistance |-> 3000, startElevation |-> 0,
                        elevationGain |-> 400]>>,
    climbs |-> <<>>,
    lastPoint |-> <<[numeric |-> TRUE, ele |-> 400, dist |-> 5000]>>,
    done |-> FALSE],
   [n |-> n, i |-> SampleSize, totalDistance |-> 5000, totalElevationGain |-> 400,
    currentClimb |-> <<>>,
    climbs |-> <<Climb(1000, 3500, 400)>>,
    lastPoint |-> <<[numeric |-> TRUE, ele |-> 394, dist |-> 5000]>>,
    done |-> FALSE]}

StartedScans ==
  {NewScan(n) : n \in 1..MaxPoints}
  \cup UNION {SampledScans(SampleSize + k) : k \in 1..(MaxPoints - 1)}

\* The track points the file may hold at index i: the validator has checked
\* the coordinates of the points before SampleSize.
TrackPoints(i) ==
  {[numeric |-> TRUE, step |-> step, ele |-> ele] :
     step \in IF i = 0 THEN {0} ELSE Steps, ele \in Elevations}
  \cup IF i >= SampleSize
       THEN {[numeric |-> FALSE, step |-> 0, ele |-> ele] : ele \in Elevations}
       ELSE {}

\* One pass of the for loop.
ProcessTrackPoint ==
  /\ ~scan.done
  /\ scan.i < scan.n
  /\ \E point \in TrackPoints(scan.i) : scan' = ScanPoint(scan, point)
  /\ UNCHANGED <<unitSystem, effectiveRideTime, rideIntensity, currentTemp,
                 nutritionProfile, routeData, fuelSchedule, rideVars, uploadVars,
                 alertVars, pending, serverVars>>

\* lines 240-283: the loop is over, the route is built and published.
FinishScan ==
  /\ ~scan.done
  /\ scan.i = scan.n
  /\ scan' = [scan EXCEPT !.done = TRUE]
  /\ PublishRoute(RouteOf(scan, unitSystem))
  /\ UNCHANGED <<uploadVars, alertVars, pending, serverVars>>

InitScan ==
  /\ ServerIdle
  /\ unitSystem \in Units
  /\ effectiveRideTime = 60
  /\ rideIntensity = "casual"
  /\ currentTemp = 75
  /\ nutritionProfile = <<>>
  /\ routeData = <<>>
  /\ fuelSchedule = <<>>
  /\ scan \in StartedScans
  /\ RideMounted
  /\ UploadMounted
  /\ AlertsMounted

NextScan == ProcessTrackPoint \/ FinishScan

SpecScan == InitScan /\ [][NextScan]_vars

(***************************************************************************)
(* GPXValidator and parseGPXFile on a whole file.  A file is what the      *)
(* checks read of it: size in bytes, whether its name ends in .gpx and     *)
(* matches the safe pattern, length of its text, whether a dangerous       *)
(* pattern occurs in it, its nesting depth, whether DOMParser parses it    *)
(* without a parsererror, whether it has a gpx element, that element's     *)
(* version, its number of trkpt elements and its first track points.       *)
(* A verdict is [error, parsed]: the message ("" for none) and whether     *)
(* DOMParser.parseFromString ran on the text.                              *)
(***************************************************************************)
MAX_FILE_SIZE == 5 * 1024 * 1024

MAX_CONTENT_SIZE == 10 * 1024 * 1024

MAX_TRACK_POINTS == 50000

MAX_NESTED_ELEMENTS == 1000

Verdict(error, parsed) == [error |-> error, parsed |-> parsed]

\* GPXValidator.validateFile: the error, "" for a valid file.
validateFile(file) ==
  IF file.size > MAX_FILE_SIZE THEN "File too large. Maximum size is 5MB"
  ELSE IF ~file.gpxExtension THEN "Invalid file extension. Only .gpx files are allowed"
  ELSE IF ~file.safeName
  THEN "Invalid filename. Only alphanumeric characters, hyphens, underscores, and dots are allowed"
  ELSE ""

\* GPXValidator.validateXMLStructure: the depth count, then DOMParser.
validateXMLStructure(file) ==
  IF file.depth > MAX_NESTED_ELEMENTS THEN Verdict("XML structure too deeply nested", FALSE)
  ELSE IF ~file.wellFormed THEN Verdict("Invalid XML format", TRUE)
  ELSE Verdict("", TRUE)

\* Mutant: a missing root element is reported as an XML format error.
validateGPXStructure_OneMessage(file) ==
  IF ~file.root THEN "Invalid XML format"
  ELSE IF file.version \notin {"1.0", "1.1"}
  THEN "Unsupported GPX version. Only versions 1.0 and 1.1 are supported"
  ELSE IF file.trkpt = 0 THEN "No track points found in GPX file"
  ELSE IF file.trkpt > MAX_TRACK_POINTS
  THEN "Too many track points. Maximum allowed is 50000"
  ELSE IF \E k \in 1..Len(file.points) : k <= SampleSize /\ ~file.points[k].numeric
  THEN "Invalid coordinates in track point"
  ELSE ""

\* GPXValidator.validateGPXStructure: the error, "" for none; it begins by
\* parsing the text with DOMParser.
validateGPXStructure(file) ==
  IF ~file.root THEN "Invalid GPX file: missing GPX root element"
  ELSE IF file.version \notin {"1.0", "1.1"}
  THEN "Unsupported GPX version. Only versions 1.0 and 1.1 are supported"
  ELSE IF file.trkpt = 0 THEN "No track points found in GPX file"
  ELSE IF file.trkpt > MAX_TRACK_POINTS
  THEN "Too many track points. Maximum allowed is 50000"
  ELSE IF \E k \in 1..Len(file.points) : k <= SampleSize /\ ~file.points[k].numeric
  THEN "Invalid coordinates in track point"
  ELSE ""

\* GPXValidator.validateContent; readOk says that FileReader delivered the text.
validateContent(file, readOk) ==
  IF ~readOk THEN Verdict("Failed to read file", FALSE)
  ELSE IF file.length > MAX_CONTENT_SIZE
  THEN Verdict("Content too large. Maximum content size is 10MB", FALSE)
  ELSE IF file.dangerous
  THEN Verdict("File contains potentially dangerous content and cannot be processed", FALSE)
  ELSE LET structure == validateXMLStructure(file)
       IN IF structure.error # "" THEN structure
          ELSE Verdict(validateGPXStructure(file), TRUE)

\* validateGPXFile (lines 115-134 of the page).
validateGPXFile(file, readOk) ==
  IF validateFile(file) # "" THEN Verdict(validateFile(file), FALSE)
  ELSE validateContent(file, readOk)

\* The track-point loop over all the points of a file.
RECURSIVE ScanFrom(_, _)
ScanFrom(s, points) ==
  IF points = <<>> THEN s ELSE ScanFrom(ScanPoint(s, Head(points)), Tail(points))

\* parseGPXFile from the text of the file on (lines 150-267): the error it
\* throws, or the route it builds.
ParseOutcome(file, unit) ==
  IF file.length > MAX_CONTENT_SIZE
  THEN [error |-> "GPX file content too large", route |-> <<>>]
  ELSE IF ~file.wellFormed THEN [error |-> "Invalid GPX file format", route |-> <<>>]
  ELSE IF ~file.root
  THEN [error |-> "Invalid GPX file: missing GPX root element", route |-> <<>>]
  ELSE IF file.trkpt = 0
  THEN [error |-> "No track points found in GPX file", route |-> <<>>]
  ELSE [error |-> "",
        route |-> <<RouteOf(ScanFrom(NewScan(Len(file.points)), file.points), unit)>>]

\* The text of a file that file.text() could not deliver.
TextReadError == "The requested file could not be read"

\* A ride of 4 km that climbs 40 m over its first 2 km and descends again.
RideA ==
  [name |-> "ride-a.gpx", size |-> 2048, gpxExtension |-> TRUE, safeName |-> TRUE,
   length |-> 2048, dangerous |-> FALSE, depth |-> 4, wellFormed |-> TRUE,
   root |-> TRUE, version |-> "1.1", trkpt |-> 3,
   points |-> <<[numeric |-> TRUE, step |-> 0, ele |-> 0],
                [numeric |-> TRUE, step |-> 2000, ele |-> 400],
                [numeric |-> TRUE, step |-> 2000, ele |-> 0]>>]

\* A level ride of 500 m.
RideB ==
  [RideA EXCEPT !.name = "ride-b.gpx", !.trkpt = 2,
                !.points = <<[numeric |-> TRUE, step |-> 0, ele |-> 0],
                             [numeric |-> TRUE, step |-> 500, ele |-> 0]>>]

\* Files with one defect each.  The text of a file is never longer than the
\* file, so no file within MAX_FILE_SIZE exceeds MAX_CONTENT_SIZE.
DefectiveFiles ==
  {[RideA EXCEPT !.name = "large.gpx", !.size = MAX_FILE_SIZE + 1,
                 !.length = MAX_FILE_SIZE + 1],
   [RideA EXCEPT !.name = "ride.txt", !.gpxExtension = FALSE],
   [RideA EXCEPT !.name = "entity.gpx", !.dangerous = TRUE],
   [RideA EXCEPT !.name = "deep.gpx", !.depth = MAX_NESTED_ELEMENTS + 1],
   [RideA EXCEPT !.name = "malformed.gpx", !.wellFormed = FALSE],
   [RideA EXCEPT !.name = "noroot.gpx", !.root = FALSE, !.trkpt = 0, !.points = <<>>],
   [RideA EXCEPT !.name = "version.gpx", !.version = "2.0"],
   [RideA EXCEPT !.name = "empty.gpx", !.trkpt = 0, !.points = <<>>],
   [RideA EXCEPT !.name = "many.gpx", !.trkpt = MAX_TRACK_POINTS + 1]}

Files == {RideA, RideB} \cup DefectiveFiles

(***************************************************************************)
(* SpecUpload: files are selected in the route input of the mounted page   *)
(* and handleGPXUpload runs on each; upload u is the call for the u-th     *)
(* file selected.  A call is suspended at the await of validateGPXFile in  *)
(* handleGPXUpload (pc "validating"), at that of parseGPXFile              *)
(* ("revalidating") or at the await of file.text() ("reading"); it ends    *)
(* "failed" with its error or "published".  The reads of a file may fail.  *)
(***************************************************************************)
InFlight(upload) == upload.pc \in {"validating", "revalidating", "reading"}

Settle(u, pc, error) ==
  uploads' = [uploads EXCEPT ![u] = [@ EXCEPT !.pc = pc, !.error = error]]

\* handleGPXUpload up to its first await; the input is disabled while
\* isParsingGPX is set (line 1316), and its change event needs a file other
\* than the one it holds.
SelectFile ==
  /\ ~isParsingGPX
  /\ Len(selection) < MaxUploads
  /\ \E file \in Files :
       LET u == Len(selection) + 1
       IN /\ IF selection = <<>> THEN TRUE ELSE file.name # selection[Len(selection)]
          /\ selection' = Append(selection, file.name)
          /\ IF validateFile(file) # ""
             THEN /\ uploads' = [uploads EXCEPT ![u] = [pc |-> "failed", file |-> <<file>>,
                                                       error |-> validateFile(file)]]
                  /\ gpxError' = validateFile(file)
             ELSE /\ uploads' = [uploads EXCEPT ![u] = [pc |-> "validating",
                                                       file |-> <<file>>, error |-> ""]]
                  /\ gpxError' = gpxError
  /\ UNCHANGED <<isParsingGPX, parsedXml, unitSystem, effectiveRideTime, rideIntensity,
                 currentTemp, nutritionProfile, routeData, fuelSchedule, scan, rideVars,
                 alertVars, pending, serverVars>>

\* The validation awaited by handleGPXUpload settles (lines 295-302); a
\* valid file goes on into parseGPXFile up to its first await (lines 139-142).
ValidationSettles ==
  /\ \E u \in Uploads, readOk \in BOOLEAN :
       /\ uploads[u].pc = "validating"
       /\ LET verdict == validateGPXFile(uploads[u].file[1], readOk)
          IN /\ parsedXml' = IF verdict.parsed
                             THEN parsedXml \cup {uploads[u].file[1].name}
                             ELSE parsedXml
             /\ IF verdict.error # ""
                THEN /\ Settle(u, "failed", verdict.error)
                     /\ gpxError' = verdict.error
                     /\ isParsingGPX' = isParsingGPX
                ELSE /\ Settle(u, "revalidating", "")
                     /\ gpxError' = ""
                     /\ isParsingGPX' = TRUE
  /\ UNCHANGED <<selection, unitSystem, effectiveRideTime, rideIntensity, currentTemp,
                 nutritionProfile, routeData, fuelSchedule, scan, rideVars, alertVars,
                 pending, serverVars>>

\* The validation awaited by parseGPXFile settles (lines 142-149); an error
\* is thrown to the catch and finally blocks (lines 285-289).
RevalidationSettles ==
  /\ \E u \in Uploads, readOk \in BOOLEAN :
       /\ uploads[u].pc = "revalidating"
       /\ LET verdict == validateGPXFile(uploads[u].file[1], readOk)
          IN /\ parsedXml' = IF verdict.parsed
                             THEN parsedXml \cup {uploads[u].file[1].name}
                             ELSE parsedXml
             /\ IF verdict.error # ""
                THEN /\ Settle(u, "failed", verdict.error)
                     /\ gpxError' = verdict.error
                     /\ isParsingGPX' = FALSE
                ELSE /\ Settle(u, "reading", "")
                     /\ gpxError' = gpxError
                     /\ isParsingGPX' = isParsingGPX
  /\ UNCHANGED <<selection, unitSystem, effectiveRideTime, rideIntensity, currentTemp,
                 nutritionProfile, routeData, fuelSchedule, scan, rideVars, alertVars,
                 pending, serverVars>>

\* file.text() settles and parseGPXFile runs to its end (lines 150-289).
TextSettles ==
  /\ \E u \in Uploads, readOk \in BOOLEAN :
       /\ uploads[u].pc = "reading"
       /\ LET file == uploads[u].file[1]
              outcome == IF readOk THEN ParseOutcome(file, unitSystem)
                         ELSE [error |-> TextReadError, route |-> <<>>]
          IN /\ parsedXml' = IF readOk /\ file.length <= MAX_CONTENT_SIZE
                             THEN parsedXml \cup {file.name}
                             ELSE parsedXml
             /\ IF outcome.error # ""
                THEN /\ Settle(u, "failed", outcome.error)
                     /\ gpxError' = outcome.error
                     /\ UNCHANGED <<unitSystem, effectiveRideTime, rideIntensity,
                                    currentTemp, nutritionProfile, routeData,
                                    fuelSchedule, rideVars>>
                ELSE /\ Settle(u, "published", "")
                     /\ gpxError' = gpxError
                     /\ PublishRoute(outcome.route[1])
       /\ isParsingGPX' = FALSE
  /\ UNCHANGED <<selection, scan, alertVars, pending, serverVars>>

InitUpload == ServerIdle /\ PlannerMounted

NextUpload == SelectFile \/ ValidationSettles \/ RevalidationSettles \/ TextSettles

SpecUpload == InitUpload /\ [][NextUpload]_vars

(***************************************************************************)
(* SpecRide: a ride on the page.  The settings are chosen before the ride  *)
(* (the setup view is shown while no ride is under way, line 1112); the    *)
(* timer of lines 882-890 adds a minute to elapsedTime while riding.       *)
(***************************************************************************)
\* alert.time <= elapsedTime && alert.time > elapsedTime - 5 &&
\* !completedAlerts.has(alert.time)
IsCurrent(alert, elapsed, completed) ==
  /\ alert.time <= elapsed
  /\ alert.time > elapsed - 5
  /\ alert.time \notin completed

\* alert.time > elapsedTime && !completedAlerts.has(alert.time)
IsNext(alert, elapsed, completed) ==
  /\ alert.time > elapsed
  /\ alert.time \notin completed

\* getCurrentAlert: fuelSchedule.find, <<>> for undefined.
getCurrentAlert(schedule, elapsed, completed) ==
  IF \E k \in 1..Len(schedule) : IsCurrent(schedule[k], elapsed, completed)
  THEN <<schedule[CHOOSE k \in 1..Len(schedule) :
                    /\ IsCurrent(schedule[k], elapsed, completed)
                    /\ \A j \in 1..(k - 1) : ~IsCurrent(schedule[j], elapsed, completed)]>>
  ELSE <<>>

\* getNextAlert: fuelSchedule.find, <<>> for undefined.
getNextAlert(schedule, elapsed, completed) ==
  IF \E k \in 1..Len(schedule) : IsNext(schedule[k], elapsed, completed)
  THEN <<schedule[CHOOSE k \in 1..Len(schedule) :
                    /\ IsNext(schedule[k], elapsed, completed)
                    /\ \A j \in 1..(k - 1) : ~IsNext(schedule[j], elapsed, completed)]>>
  ELSE <<>>

\* The mounted page after the rider has chosen a ride time, an intensity and
\* the weather has set a temperature.
Configured(d, intensity, temp) ==
  /\ unitSystem = "US"
  /\ rideType = "time"
  /\ rideTime = d
  /\ rideMiles = 20 * 10
  /\ rideKilometers = 32 * 10
  /\ effectiveRideTime = getEffectiveRideTime(rideType, rideTime, rideMiles, rideKilometers)
  /\ rideIntensity = intensity
  /\ currentTemp = temp
  /\ nutritionProfile = <<>>
  /\ routeData = <<>>
  /\ fuelSchedule = generateSchedule(effectiveRideTime, rideIntensity, currentTemp,
                                     nutritionProfile, routeData, unitSystem)
  /\ scan = NoScan
  /\ UploadMounted
  /\ AlertsMounted

startRide ==
  /\ ~isRiding
  /\ isRiding' = TRUE
  /\ elapsedTime' = 0
  /\ completedAlerts' = {}
  /\ UNCHANGED <<unitSystem, effectiveRideTime, rideIntensity, currentTemp,
                 nutritionProfile, routeData, fuelSchedule, scan, rideVars, uploadVars,
                 pending, serverVars>>

\* The interval of lines 885-887 fires.
Minute ==
  /\ isRiding
  /\ elapsedTime < MaxElapsed
  /\ elapsedTime' = elapsedTime + 1
  /\ UNCHANGED <<isRiding, completedAlerts>>
  /\ UNCHANGED <<unitSystem, effectiveRideTime, rideIntensity, currentTemp,
                 nutritionProfile, routeData, fuelSchedule, scan, rideVars, uploadVars,
                 pending, serverVars>>

\* Mark Complete on the current alert (line 1681): markCompleted(currentAlert.time).
markCompleted ==
  /\ isRiding
  /\ getCurrentAlert(fuelSchedule, elapsedTime, completedAlerts) # <<>>
  /\ completedAlerts' =
       completedAlerts
         \cup {getCurrentAlert(fuelSchedule, elapsedTime, completedAlerts)[1].time}
  /\ UNCHANGED <<isRiding, elapsedTime>>
  /\ UNCHANGED <<unitSystem, effectiveRideTime, rideIntensity, currentTemp,
                 nutritionProfile, routeData, fuelSchedule, scan, rideVars, uploadVars,
                 pending, serverVars>>

stopRide ==
  /\ isRiding
  /\ isRiding' = FALSE
  /\ UNCHANGED <<elapsedTime, completedAlerts>>
  /\ UNCHANGED <<unitSystem, effectiveRideTime, rideIntensity, currentTemp,
                 nutritionProfile, routeData, fuelSchedule, scan, rideVars, uploadVars,
                 pending, serverVars>>

\* Rides of 90 minutes: moderate or hard, at 75 or 86 degrees.
InitRide ==
  /\ ServerIdle
  /\ \E intensity \in {"moderate", "hard"}, temp \in {75, 86} :
       Configured(90, intensity, temp)

NextRide == startRide \/ Minute \/ markCompleted \/ stopRide

SpecRide == InitRide /\ [][NextRide]_vars

(***************************************************************************)
(* Properties                                                              *)
(***************************************************************************)
\* response answers a request handled at the current instant.
Answered == lastRequest.key # ""

IsSnapshot(r) == r.status = 200 /\ r.snapshot # <<>>

IsFresh(r) == IsSnapshot(r) /\ ~r.cached /\ ~r.stale /\ ~r.fallback

IsCacheHit(r) == IsSnapshot(r) /\ r.cached /\ ~r.stale /\ ~r.fallback

IsStaleCache(r) == IsSnapshot(r) /\ r.cached /\ r.stale /\ ~r.fallback

IsFallbackDefault(r) ==
  IsSnapshot(r) /\ ~r.cached /\ ~r.stale /\ r.fallback /\ r.snapshot[1] = DEFAULT_WEATHER

\* The upstream calls of the request failed: a network error or a non-2xx
\* status other than geocoding's 404, or a malformed conditions payload.
UpstreamFailed(q) ==
  /\ q.calls # {}
  /\ \/ q.up.geo \in {"throws", "non2xx"}
     \/ q.up.geo = "ok" /\ q.up.rev = "throws"
     \/ q.up.geo = "ok" /\ q.up.rev # "throws" /\ q.up.wx # "ok"

C3_RollingHourCap == probe.accepted <= RATE_LIMIT

\* C3 (amended): at most RATE_LIMIT requests are accepted in one window (from
\* the request that opens it until its resetTime); a rolling hour can span the
\* end of one window and the start of the next and holds at most
\* 2 * RATE_LIMIT - 1 accepted requests.
C3_WindowCap ==
  /\ probe.accepted <= 2 * RATE_LIMIT - 1
  /\ \A key \in DOMAIN rateLimitStore :
       (probe.on /\ probe.start + RATE_LIMIT_WINDOW = rateLimitStore[key].resetTime)
         => probe.accepted <= RATE_LIMIT

\* C3 witness: 2 * RATE_LIMIT - 1 requests accepted within one rolling hour.
C3_Witness == probe.accepted = 2 * RATE_LIMIT - 1

\* C4: in a caller's window exactly the first RATE_LIMIT requests are
\* accepted; every later one is short-circuited with no upstream call.
C4_First100Accepted ==
  Answered =>
    /\ lastRequest.accepted <=> seen[lastRequest.key].n <= RATE_LIMIT
    /\ ~lastRequest.accepted => (lastRequest.calls = {} /\ response.status = 429)

\* C4 witness: the 101st request of a window, for a postal code that is not
\* cached, was short-circuited.
C4_Witness ==
  /\ Answered
  /\ seen[lastRequest.key].n = RATE_LIMIT + 1
  /\ ~lastRequest.accepted
  /\ validateZipCode(lastRequest.zip)
  /\ lastRequest.zip \notin DOMAIN weatherCache
  /\ lastRequest.calls = {}

\* C5: an accepted request for a postal code cached at t is served from the
\* cache with no upstream call when now < t + 30 min, and calls upstream when
\* now >= t + 30 min.
C5_CacheTTL ==
  [][\A zip \in DOMAIN weatherCache :
       (reqs' = reqs + 1 /\ lastRequest'.zip = zip /\ lastRequest'.accepted) =>
         IF now < weatherCache[zip].timestamp + 30 * 60 * 1000
         THEN /\ lastRequest'.calls = {}
              /\ IsCacheHit(response')
              /\ response'.snapshot = <<weatherCache[zip].data>>
         ELSE "geo" \in lastRequest'.calls]_vars

\* C5 witness: a request arriving exactly 30 minutes after the cache write
\* went upstream (and, upstream failing, was answered with the entry as stale).
C5_Witness ==
  /\ Answered
  /\ lastRequest.accepted
  /\ lastRequest.zip \in DOMAIN weatherCache
  /\ now = weatherCache[lastRequest.zip].timestamp + 30 * 60 * 1000
  /\ "geo" \in lastRequest.calls
  /\ IsStaleCache(response)

\* C6: when the upstream calls of a request fail, a postal code with a cache
\* entry, however old, gets that entry marked stale and never the default;
\* the default, marked fallback, is returned only when there is no entry.
C6_StaleBeforeDefault ==
  (Answered /\ UpstreamFailed(lastRequest)) =>
    IF lastRequest.zip \in DOMAIN weatherCache
    THEN /\ IsStaleCache(response)
         /\ response.snapshot = <<weatherCache[lastRequest.zip].data>>
         /\ response.snapshot[1] # DEFAULT_WEATHER
    ELSE IsFallbackDefault(response)

\* C6 witness: an entry older than the TTL was served as stale.
C6_Witness ==
  /\ Answered
  /\ UpstreamFailed(lastRequest)
  /\ lastRequest.zip \in DOMAIN weatherCache
  /\ now - weatherCache[lastRequest.zip].timestamp > CACHE_DURATION
  /\ IsStaleCache(response)

\* C7 (as claimed): a missing or malformed postal code always yields the
\* validation error, with no upstream call, whatever the rate-limit counter.
C7_ValidationFirst ==
  (Answered /\ ~validateZipCode(lastRequest.zip)) =>
    (response.status = 400 /\ lastRequest.calls = {})

\* C8: a fetch in which geocoding and current-conditions succeed replaces the
\* cache entry of the requested postal code with the new data and the write
\* time, leaves the other entries alone, and is answered as fresh.
C8_FreshFetchWrites ==
  [][(/\ reqs' = reqs + 1
      /\ lastRequest'.calls = {"geo", "reverse", "weather"}
      /\ lastRequest'.up.geo = "ok"
      /\ lastRequest'.up.wx = "ok") =>
       /\ IsFresh(response')
       /\ response'.snapshot[1].temperature = lastRequest'.up.temp
       /\ DOMAIN weatherCache' = DOMAIN weatherCache \cup {lastRequest'.zip}
       /\ weatherCache'[lastRequest'.zip] =
            [data |-> response'.snapshot[1], timestamp |-> now]
       /\ \A k \in DOMAIN weatherCache \ {lastRequest'.zip} :
            weatherCache'[k] = weatherCache[k]]_vars

\* C8 witness: a fresh answer has replaced one entry while another, older
\* entry is still in the cache.
C8_Witness ==
  /\ Answered
  /\ IsFresh(response)
  /\ lastRequest.zip \in DOMAIN weatherCache
  /\ weatherCache[lastRequest.zip].timestamp = now
  /\ \E k \in DOMAIN weatherCache \ {lastRequest.zip} : weatherCache[k].timestamp < now

\* C9: the cache changes only in a step that answers a fully successful
\* fresh fetch; every other step leaves each entry as it was.
C9_CacheOnlyOnSuccess ==
  [][weatherCache' # weatherCache =>
       /\ IsFresh(response')
       /\ lastRequest'.accepted
       /\ validateZipCode(lastRequest'.zip)
       /\ lastRequest'.calls = {"geo", "reverse", "weather"}
       /\ ~UpstreamFailed(lastRequest')]_vars

\* C9 witness: a fetch failed after geocoding had succeeded, and the entry
\* written earlier is still the one in the cache.
C9_Witness ==
  /\ Answered
  /\ lastRequest.up.geo = "ok"
  /\ lastRequest.up.wx = "non2xx"
  /\ lastRequest.calls = {"geo", "reverse", "weather"}
  /\ lastRequest.zip \in DOMAIN weatherCache
  /\ weatherCache[lastRequest.zip].timestamp < now
  /\ IsStaleCache(response)

\* C10 (as claimed): a request suspended on an upstream call can always be
\* resumed, so that it completes even if that call never answers.
C10_NeverLeftWaiting == (inflight.pc # "idle") => ENABLED Resume

(***************************************************************************)
(* C11 (SpecConc)                                                          *)
(***************************************************************************)
\* C11: under every interleaving of concurrent requests of one caller the
\* check-and-increment is atomic: the caller's record counts every request
\* of its current window up to RATE_LIMIT (no increment is lost), and the
\* requests accepted in that window are as many as the record counts, never
\* more than RATE_LIMIT.
C11_AtomicCheckAndIncrement ==
  \A key \in Callers :
    key \in DOMAIN rateLimitStore =>
      /\ rateLimitStore[key].count =
           (IF seen[key].n < RATE_LIMIT THEN seen[key].n ELSE RATE_LIMIT)
      /\ probe.accepted = rateLimitStore[key].count
      /\ probe.accepted <= RATE_LIMIT

\* Two requests are suspended at their awaits and a further request of the
\* same window has been turned away at the limit.
C11_Witness ==
  /\ \A r \in Requests : pending[r].pc # "idle"
  /\ \E key \in Callers :
       /\ key \in DOMAIN rateLimitStore
       /\ rateLimitStore[key].count = RATE_LIMIT
       /\ seen[key].n > RATE_LIMIT

(***************************************************************************)
(* C12 - C19 (SpecSched): the schedule generateSchedule returns            *)
(***************************************************************************)
IsCritical(alert) == alert.type = "carbs" /\ alert.priority = "critical"

IsBaseCarb(alert) == alert.type = "carbs" /\ alert.priority = "normal"

IsElectrolyte(alert) == alert.type = "electrolytes"

\* C12: the schedule is sorted by time ascending and every event, of
\* whatever kind, has 0 <= time < duration.
C12_SortedWithinRide ==
  /\ \A k \in 1..(Len(fuelSchedule) - 1) :
       fuelSchedule[k].time <= fuelSchedule[k + 1].time
  /\ \A k \in 1..Len(fuelSchedule) :
       /\ fuelSchedule[k].time >= 0
       /\ fuelSchedule[k].time < effectiveRideTime

\* A schedule with the three kinds of event in which a pre-climb event,
\* pushed after the base carb events, precedes one of them.
C12_Witness ==
  /\ \E k \in 1..Len(fuelSchedule) : IsElectrolyte(fuelSchedule[k])
  /\ \E j, k \in 1..Len(fuelSchedule) :
       /\ j < k
       /\ IsCritical(fuelSchedule[j])
       /\ IsBaseCarb(fuelSchedule[k])

\* The tier table as the claim states it, each boundary in the upper tier:
\* <<rate in g/h, first event, interval>>.
C13_Tier(intensity, d) ==
  IF intensity = "casual"
  THEN IF d < 90 THEN <<0, 0, 0>> ELSE IF d < 150 THEN <<20, 75, 60>> ELSE <<30, 75, 50>>
  ELSE IF intensity = "moderate"
  THEN IF d < 75 THEN <<0, 0, 0>>
       ELSE IF d < 90 THEN <<25, 60, 60>>
       ELSE IF d < 150 THEN <<45, 60, 35>>
       ELSE <<60, 60, 25>>
  ELSE IF d < 60 THEN <<0, 0, 0>> ELSE IF d < 90 THEN <<50, 45, 30>> ELSE <<70, 45, 20>>

\* The positions of the normal-priority carb events in the schedule.
BaseCarbs == {k \in 1..Len(fuelSchedule) : IsBaseCarb(fuelSchedule[k])}

C14_ShortRideEmpty ==
  (effectiveRideTime # NaN /\ effectiveRideTime < 60) => fuelSchedule = <<>>

\* A hard 59-minute ride at 86 degrees by a heavy sweater on a route with a
\* climb of more than 100 m.
C14_Witness ==
  /\ effectiveRideTime = 59
  /\ rideIntensity = "hard"
  /\ currentTemp = 86
  /\ SweatRateOf(nutritionProfile) = "heavy"
  /\ routeData # <<>>
  /\ \E k \in 1..Len(routeData[1].climbs) : routeData[1].climbs[k].elevationGain > 1000
  /\ fuelSchedule = <<>>

\* The positions of the critical pre-climb events in the schedule.
Criticals == {k \in 1..Len(fuelSchedule) : IsCritical(fuelSchedule[k])}

\* The pre-fuel time of a climb that starts at distance start of a route of
\* length dist on a ride of d minutes, multiplied by dist so that it is a
\* whole number: max(5, climbStartTime - 15) for
\* climbStartTime = start / (dist / (d / 60)) * 60 = start * d / dist, taken
\* exactly, or rounded to the nearest minute first (a half going up).
C15_PreFuelTimesDist(start, dist, d, rounded) ==
  LET n == CHOOSE m \in 0..(d + 1) :
             2 * m * dist - dist <= 2 * start * d /\ 2 * start * d < 2 * m * dist + dist
      startTimesDist == IF rounded THEN n * dist ELSE start * d
  IN IF startTimesDist - 15 * dist > 5 * dist THEN startTimesDist - 15 * dist ELSE 5 * dist

\* The pre-fuel times (multiplied by the route's distance) of the pre-climb
\* events the claim puts in the schedule for the first k climbs of the
\* route: a climb of more than 100 m gets one unless a base carb event or a
\* pre-climb event of an earlier climb lies fewer than 10 minutes from it.
RECURSIVE C15_Inserted(_, _)
C15_Inserted(k, rounded) ==
  IF k = 0 THEN {}
  ELSE LET route == routeData[1]
           dist == route.distance
           climb == route.climbs[k]
           before == C15_Inserted(k - 1, rounded)
           t == C15_PreFuelTimesDist(climb.startDistance, dist, effectiveRideTime, rounded)
           taken == {fuelSchedule[j].time * dist : j \in BaseCarbs} \cup before
       IN IF /\ climb.elevationGain > 100 * 10
             /\ \A e \in taken : Abs(e - t) >= 10 * dist
          THEN before \cup {t}
          ELSE before

\* A ride the climb rule applies to: not casual, on a route whose
\* distances are numbers.
C15_Applies ==
  /\ effectiveRideTime # NaN
  /\ effectiveRideTime >= 60
  /\ rideIntensity # "casual"
  /\ routeData # <<>>
  /\ routeData[1].distance # NaN
  /\ routeData[1].distance > 0

\* The base carb events are those of the same ride without a route.
C15_BaseKept ==
  SelectSeq(fuelSchedule, IsBaseCarb)
    = SelectSeq(generateSchedule(effectiveRideTime, rideIntensity, currentTemp,
                                 nutritionProfile, <<>>, unitSystem), IsBaseCarb)

\* C15 as stated: on a ride that is not casual every climb of more than
\* 100 m has a critical carb event at max(5, climbStartTime - 15) with
\* climbStartTime = climbStartDistance / (routeDistance / (duration / 60)) * 60,
\* unless an event already in the schedule lies fewer than 10 minutes from
\* that time; there is no other critical event, and the base carb events
\* are unchanged.
C15_PreClimbAtExactTime ==
  /\ C15_Applies =>
       {fuelSchedule[k].time * routeData[1].distance : k \in Criticals}
         = C15_Inserted(Len(routeData[1].climbs), FALSE)
  /\ (rideIntensity = "casual" \/ routeData = <<>>) => Criticals = {}
  /\ C15_BaseKept

\* C15, amended: on a ride of at least 60 minutes that is not casual, every
\* climb of more than 100 m has a critical carb event at
\* max(5, climbStartTime - 15), climbStartTime being
\* climbStartDistance / (routeDistance / (duration / 60)) * 60 rounded to the
\* nearest minute, unless a base carb event or the pre-climb event of an
\* earlier climb lies fewer than 10 minutes from that time or the route's
\* distance is not a number; there is no other critical event (none on a
\* casual ride, none for a climb of 100 m or less), and the base carb
\* events are unchanged.
C15_PreClimbAtRoundedTime ==
  /\ C15_Applies =>
       /\ {fuelSchedule[k].time * routeData[1].distance : k \in Criticals}
            = C15_Inserted(Len(routeData[1].climbs), TRUE)
       /\ Cardinality(Criticals)
            = Cardinality(C15_Inserted(Len(routeData[1].climbs), TRUE))
  /\ ~C15_Applies => Criticals = {}
  /\ C15_BaseKept

\* A ride on a route with two climbs of more than 100 m whose start times
\* are not whole minutes: the first has its pre-climb event, the second is
\* fewer than 10 minutes after it and has none.
C15_Witness ==
  /\ C15_Applies
  /\ Len(routeData[1].climbs) = 2
  /\ \A k \in 1..2 :
       /\ routeData[1].climbs[k].elevationGain > 1000
       /\ (routeData[1].climbs[k].startDistance * effectiveRideTime)
             % routeData[1].distance # 0
  /\ Cardinality(Criticals) = 1
  /\ BaseCarbs # {}

\* C16 as stated: no critical pre-climb event lies fewer than 10 minutes
\* from any other event of the schedule, be it a base carb event, another
\* pre-climb event or an electrolyte event.
C16_CriticalApartFromAll ==
  \A k \in Criticals : \A j \in 1..Len(fuelSchedule) :
    j # k => Abs(fuelSchedule[j].time - fuelSchedule[k].time) >= 10

\* C16, amended: no critical pre-climb event lies fewer than 10 minutes
\* from any other carb event of the schedule, base or pre-climb; electrolyte
\* events are added afterwards and may lie closer.
C16_CriticalApartFromCarbs ==
  \A k \in Criticals : \A j \in 1..Len(fuelSchedule) :
    (j # k /\ fuelSchedule[j].type = "carbs")
      => Abs(fuelSchedule[j].time - fuelSchedule[k].time) >= 10

\* A pre-climb event exactly 10 minutes from a base carb event and fewer
\* than 10 minutes from an electrolyte event.
C16_Witness ==
  \E k \in Criticals :
    /\ \E j \in BaseCarbs : Abs(fuelSchedule[j].time - fuelSchedule[k].time) = 10
    /\ \E j \in 1..Len(fuelSchedule) :
         /\ IsElectrolyte(fuelSchedule[j])
         /\ Abs(fuelSchedule[j].time - fuelSchedule[k].time) < 10

\* The policy table as the claim states it: <<mg of sodium, interval>>, or
\* <<0, 0>> for no electrolytes.
C17_Policy(d, temp, sweatRate) ==
  IF d < 60 THEN <<0, 0>>
  ELSE IF d < 90
  THEN IF temp > 85 \/ sweatRate = "heavy" THEN <<400, 60>> ELSE <<0, 0>>
  ELSE IF temp > 80 \/ sweatRate = "heavy" THEN <<500, 60>>
  ELSE IF temp > 75 \/ sweatRate = "moderate" THEN <<300, 75>>
  ELSE <<0, 0>>

\* The positions of the electrolyte events in the schedule.
ElectrolyteEvents == {k \in 1..Len(fuelSchedule) : IsElectrolyte(fuelSchedule[k])}

\* C17: the electrolyte events follow the policy table for the duration,
\* the temperature and the sweat rate: none where the table has none,
\* otherwise exactly one of the table's amount at each 60 + k * interval
\* (k >= 0) before the end of the ride.
C17_ElectrolytePolicy ==
  LET policy == C17_Policy(effectiveRideTime, currentTemp, SweatRateOf(nutritionProfile))
      times == IF policy[1] = 0 THEN {}
               ELSE {t \in 60..(effectiveRideTime - 1) : (t - 60) % policy[2] = 0}
  IN /\ {fuelSchedule[k].time : k \in ElectrolyteEvents} = times
     /\ Cardinality(ElectrolyteEvents) = Cardinality(times)
     /\ \A k \in ElectrolyteEvents :
          fuelSchedule[k].amount = policy[1] /\ fuelSchedule[k].priority = "normal"

\* A 240-minute ride at 75 degrees by a moderate sweater: 300 mg at 60,
\* 135 and 210.
C17_Witness ==
  /\ effectiveRideTime = 240
  /\ currentTemp = 75
  /\ SweatRateOf(nutritionProfile) = "moderate"
  /\ Cardinality(ElectrolyteEvents) = 3
  /\ \A k \in ElectrolyteEvents : fuelSchedule[k].amount = 300

\* The schedule of the present ride for another profile.
ScheduleWith(profile) ==
  generateSchedule(effectiveRideTime, rideIntensity, currentTemp, profile, routeData,
                   unitSystem)

\* C18 as stated: without a rider profile the schedule is the one of a
\* profile with moderate intensity and moderate sweat rate.
C18_AbsentAsModerate ==
  nutritionProfile = <<>> => fuelSchedule = ScheduleWith(<<Profile("moderate", "moderate")>>)

\* C18, amended: without a rider profile the schedule is the one of a
\* profile with sweat rate light, whatever the profile's intensity (the
\* ride's own intensity setting is used, with or without a profile).
C18_AbsentAsLight ==
  nutritionProfile = <<>> =>
    \A intensity \in {"easy", "moderate", "hard", "mixed"} :
      fuelSchedule = ScheduleWith(<<Profile("light", intensity)>>)

\* A ride of 90 minutes or more at 75 degrees without a profile: carb
\* events and no electrolyte event, where a moderate sweater has some.
C18_Witness ==
  /\ nutritionProfile = <<>>
  /\ effectiveRideTime >= 90
  /\ currentTemp = 75
  /\ fuelSchedule # <<>>
  /\ ElectrolyteEvents = {}
  /\ \E k \in 1..Len(ScheduleWith(<<Profile("moderate", "moderate")>>)) :
       IsElectrolyte(ScheduleWith(<<Profile("moderate", "moderate")>>)[k])

\* C19: the electrolyte events depend on the duration, the temperature and
\* the sweat rate only: for the duration, temperature and profile of the
\* present ride, every intensity and every route (none, without climbs,
\* with climbs) give the electrolyte events of the present schedule, same
\* times and same amounts.
C19_ElectrolytesIgnoreCarbInputs ==
  \A intensity \in Intensities, route \in {<<>>} \cup {<<r>> : r \in Routes} :
    SelectSeq(generateSchedule(effectiveRideTime, intensity, currentTemp,
                               nutritionProfile, route, unitSystem), IsElectrolyte)
      = SelectSeq(fuelSchedule, IsElectrolyte)

\* A hard ride with a pre-climb event and two or more electrolyte events;
\* the casual ride of the same duration has other carb events.
C19_Witness ==
  /\ rideIntensity = "hard"
  /\ Criticals # {}
  /\ Cardinality(ElectrolyteEvents) >= 2
  /\ SelectSeq(generateSchedule(effectiveRideTime, "casual", currentTemp,
                                nutritionProfile, <<>>, unitSystem), IsBaseCarb)
       # SelectSeq(fuelSchedule, IsBaseCarb)

(***************************************************************************)
(* C20 (SpecScan)                                                          *)
(***************************************************************************)
\* a <= b for numbers; false as soon as one of them is NaN.
Le(a, b) == a # NaN /\ b # NaN /\ a <= b

\* C20: every climb of the route the scan has published satisfies
\* 0 <= startDistance <= endDistance <= the route's distance, and each climb
\* starts at or after the end of the one before it.
C20_ClimbContainment ==
  (scan.done /\ routeData # <<>>) =>
    LET route == routeData[1]
    IN /\ \A k \in 1..Len(route.climbs) :
            /\ Le(0, route.climbs[k].startDistance)
            /\ Le(route.climbs[k].startDistance, route.climbs[k].endDistance)
            /\ Le(route.climbs[k].endDistance, route.distance)
       /\ \A k \in 1..(Len(route.climbs) - 1) :
            Le(route.climbs[k].endDistance, route.climbs[k + 1].startDistance)

(***************************************************************************)
(* C21, C22 (SpecScan)                                                     *)
(***************************************************************************)
\* C21: once the last track point has been processed no climb of more than
\* 30 m is left open: a climb open when the track ends has been closed at the
\* last point (and so recorded), whatever the final segment is.
C21_OpenClimbClosedAtEnd ==
  (scan.i = scan.n /\ scan.currentClimb # <<>>) =>
    scan.currentClimb[1].elevationGain <= 30 * 10

\* The third point of a 3-point track that climbed 50 m over 0.5 km from
\* its first point to its second is processed, and it lies lower.
C22_Descends ==
  /\ scan.n = 3 /\ scan.i = 2 /\ scan'.i = 3
  /\ scan.totalDistance = 500
  /\ scan.currentClimb =
       <<[startDistance |-> 0, startElevation |-> 0, elevationGain |-> 500]>>
  /\ scan'.lastPoint[1].ele < scan.lastPoint[1].ele - 5

\* C22: for a 3-point track climbing 50 m over 0.5 km and then descending,
\* exactly one climb is recorded, with gain 50 m, end distance 0.5 km and
\* grade 10 %: the descending segment that closes the climb adds nothing to
\* its end distance or its grade.
C22_GradeOverClimbedDistance ==
  [][C22_Descends =>
       scan'.climbs = <<[startDistance |-> 0, endDistance |-> 500,
                         elevationGain |-> 500, grade |-> 1000]>>]_vars

(***************************************************************************)
(* C23 (SpecScan)                                                          *)
(***************************************************************************)
\* C23: once a scan has published its route, the route's estimatedTime is the
\* duration the planner derives from the distance it displays: the page
\* plans by miles (US) or kilometres (UK), the distance box holds the route's
\* distance rounded to one decimal, estimatedTime is round(miles / 14 * 60)
\* or round(km / 22.5 * 60) of the box, and it is the value of
\* getEffectiveRideTime() (a distance that is NaN gives NaN on both sides).
C23_EstimatedTimeIsPlannedTime ==
  (scan.done /\ scan.n > 0) =>
    /\ routeData # <<>>
    /\ LET route == routeData[1]
       IN /\ unitSystem = "US" =>
               /\ rideType = "miles"
               /\ rideMiles = RoundedMiles(route.distance)
               /\ route.estimatedTime =
                    IF rideMiles = NaN THEN NaN ELSE Round(rideMiles * 60, 14 * 10)
          /\ unitSystem = "UK" =>
               /\ rideType = "kilometers"
               /\ rideKilometers = RoundedKm(route.distance)
               /\ route.estimatedTime =
                    IF rideKilometers = NaN THEN NaN ELSE Round(rideKilometers * 60, 225)
          /\ effectiveRideTime = route.estimatedTime
          /\ getEffectiveRideTime(rideType, rideTime, rideMiles, rideKilometers)
               = route.estimatedTime

\* A track of 4 km with 40 m of climbing has been published for a US rider:
\* 2.5 miles in the distance box and 11 minutes on both sides.
C23_Witness ==
  /\ scan.done /\ scan.n > 0
  /\ unitSystem = "US"
  /\ routeData # <<>>
  /\ routeData[1].distance = 4000
  /\ routeData[1].elevationGain >= 400
  /\ rideMiles = 25
  /\ routeData[1].estimatedTime = 11
  /\ effectiveRideTime = 11

(***************************************************************************)
(* C24, C25, C30 (SpecUpload)                                              *)
(***************************************************************************)
\* What makes a document unusable as a route: a structural XML error, no gpx
\* root element, or no track point.
C24_Defect(file) ==
  IF ~file.wellFormed THEN "xml"
  ELSE IF ~file.root THEN "root"
  ELSE IF file.trkpt = 0 THEN "points"
  ELSE "none"

\* The upload was rejected for what its document holds, not for a failed read.
C24_Rejected(upload) ==
  /\ upload.pc = "failed"
  /\ upload.error \notin {"Failed to read file", TextReadError}

C24_Fails(u) ==
  /\ uploads[u].pc # "failed"
  /\ uploads'[u].pc = "failed"

\* C24: a step in which an upload fails shows its error, which is not empty,
\* and leaves the loaded route, the ride type, the ride time, the distance
\* boxes and the schedule as they were (only gpxError and isParsingGPX
\* change on the page); and documents rejected for different defects among
\* no track point, XML error and missing gpx root carry different messages.
C24_FailedUploadKeepsState ==
  [][\A u \in Uploads :
       C24_Fails(u) =>
         /\ uploads'[u].error # ""
         /\ gpxError' = uploads'[u].error
         /\ UNCHANGED <<unitSystem, effectiveRideTime, rideIntensity, currentTemp,
                        nutritionProfile, routeData, fuelSchedule, rideVars, alertVars>>
         /\ \A v \in Uploads :
              ( /\ C24_Rejected(uploads'[u])
                /\ C24_Rejected(uploads'[v])
                /\ C24_Defect(uploads'[u].file[1]) # "none"
                /\ C24_Defect(uploads'[v].file[1]) # "none"
                /\ C24_Defect(uploads'[u].file[1]) # C24_Defect(uploads'[v].file[1]) )
              => uploads'[u].error # uploads'[v].error]_vars

\* The 4 km ride was published, then a document without track points was
\* rejected: its message is shown and the route, the ride type and the
\* distance box are those of the 4 km ride.
C24_Witness ==
  /\ uploads[1].pc = "published"
  /\ uploads[2].pc = "failed"
  /\ C24_Defect(uploads[2].file[1]) = "points"
  /\ gpxError = "No track points found in GPX file"
  /\ ~isParsingGPX
  /\ routeData # <<>>
  /\ routeData[1].distance = 4000
  /\ rideType = "miles"
  /\ rideMiles = 25

\* The document exceeds one of the security limits: file size, text size, a
\* declaration or payload among the dangerous patterns, nesting depth, or
\* the number of track points.
C25_OverLimit(file) ==
  \/ file.size > MAX_FILE_SIZE
  \/ file.length > MAX_CONTENT_SIZE
  \/ file.dangerous
  \/ file.depth > MAX_NESTED_ELEMENTS
  \/ file.trkpt > MAX_TRACK_POINTS

\* C25: a document that exceeds a security limit is rejected before any XML
\* parsing of it: DOMParser never runs on such a document.
C25_LimitsBeforeParsing ==
  \A file \in Files : C25_OverLimit(file) => file.name \notin parsedXml

\* parseGPXFile is running for the upload: between setIsParsingGPX(true) and
\* its finally block.
C30_Parsing(upload) == upload.pc \in {"revalidating", "reading"}

\* C30: isParsingGPX is set for as long as a parse is in flight; and once no
\* upload is in flight, if the file selected last was published then the
\* route, the ride type and the distance box are those of that file.
C30_LastSelectedWins ==
  /\ (\E u \in Uploads : C30_Parsing(uploads[u])) => isParsingGPX
  /\ ( /\ selection # <<>>
       /\ \A u \in Uploads : ~InFlight(uploads[u])
       /\ uploads[Len(selection)].pc = "published" )
     => LET route == ParseOutcome(uploads[Len(selection)].file[1], unitSystem).route[1]
        IN /\ routeData = <<route>>
           /\ rideType = "miles"
           /\ rideMiles = RoundedMiles(route.distance)

(***************************************************************************)
(* C26, C27 (Spec)                                                         *)
(***************************************************************************)
\* C26: when geocoding and current conditions succeed, a reverse-geocoding
\* answer that is not 2xx, or that names no state, does not degrade the
\* request: it is answered with a fresh snapshot of the conditions received,
\* located without a state name, and that snapshot is written to the cache
\* under the requested postal code with the current time.
C26_ReverseGeocodingOptional ==
  ( /\ Answered
    /\ "geo" \in lastRequest.calls
    /\ lastRequest.up.geo = "ok"
    /\ lastRequest.up.wx = "ok"
    /\ lastRequest.up.rev \in {"non2xx", "nostate"} )
  => /\ IsFresh(response)
     /\ response.warning = ""
     /\ response.snapshot[1].temperature = lastRequest.up.temp
     /\ response.snapshot[1].location = <<GeoName(lastRequest.zip), "US">>
     /\ lastRequest.zip \in DOMAIN weatherCache
     /\ weatherCache[lastRequest.zip] = [data |-> response.snapshot[1], timestamp |-> now]

\* A request whose reverse geocoding answered with a non-2xx status was
\* answered fresh, and its snapshot replaced an older cache entry.
C26_Witness ==
  /\ Answered
  /\ lastRequest.calls = {"geo", "reverse", "weather"}
  /\ lastRequest.up.geo = "ok"
  /\ lastRequest.up.wx = "ok"
  /\ lastRequest.up.rev = "non2xx"
  /\ now > 0
  /\ IsFresh(response)
  /\ weatherCache[lastRequest.zip].timestamp = now

\* C27: every cache entry is stored under a well-formed postal code and holds
\* a snapshot built from the upstream answers for that postal code (its
\* place name, a temperature the conditions upstream reported) at a time
\* not after now; the built-in default snapshot is never stored.
C27_CacheHoldsOnlyUpstreamSnapshots ==
  \A zip \in DOMAIN weatherCache :
    /\ validateZipCode(zip)
    /\ weatherCache[zip].data # DEFAULT_WEATHER
    /\ weatherCache[zip].data.location[1] = GeoName(zip)
    /\ weatherCache[zip].data.temperature \in Temps
    /\ weatherCache[zip].timestamp <= now

\* With an entry in the cache, a request for another postal code failed
\* upstream and was answered with the default, and a malformed postal code
\* is not among the keys.
C27_Witness ==
  /\ Answered
  /\ IsFallbackDefault(response)
  /\ validateZipCode(lastRequest.zip)
  /\ lastRequest.zip \notin DOMAIN weatherCache
  /\ DOMAIN weatherCache # {}

(***************************************************************************)
(* C28 (SpecRL)                                                            *)
(***************************************************************************)
\* C28: every rate-limit record has 1 <= count <= RATE_LIMIT; a rejected
\* request leaves the caller's record as it was, count and resetTime; and a
\* record gets another resetTime, or a smaller count, only by being set to
\* count 1 and resetTime now + RATE_LIMIT_WINDOW by a request that arrives
\* strictly after the old resetTime.
C28_RecordBounds ==
  [][/\ \A key \in DOMAIN rateLimitStore' :
          /\ rateLimitStore'[key].count >= 1
          /\ rateLimitStore'[key].count <= RATE_LIMIT
     /\ \A key \in DOMAIN rateLimitStore :
          /\ key \in DOMAIN rateLimitStore'
          /\ (lastRequest'.key = key /\ ~lastRequest'.accepted) =>
               rateLimitStore'[key] = rateLimitStore[key]
          /\ ( \/ rateLimitStore'[key].resetTime # rateLimitStore[key].resetTime
               \/ rateLimitStore'[key].count < rateLimitStore[key].count ) =>
               /\ now > rateLimitStore[key].resetTime
               /\ lastRequest'.key = key
               /\ lastRequest'.accepted
               /\ rateLimitStore'[key] =
                    [count |-> 1, resetTime |-> now + RATE_LIMIT_WINDOW]]_vars

\* A request arriving exactly at the resetTime of a record that stands at
\* RATE_LIMIT was rejected, and the record is as it was.
C28_Witness ==
  /\ Answered
  /\ ~lastRequest.accepted
  /\ response.status = 429
  /\ lastRequest.key \in DOMAIN rateLimitStore
  /\ rateLimitStore[lastRequest.key].count = RATE_LIMIT
  /\ rateLimitStore[lastRequest.key].resetTime = now

(***************************************************************************)
(* C29 (SpecRide)                                                          *)
(***************************************************************************)
\* The alert of the schedule is shown as completed.
C29_Completed(k, completed) == fuelSchedule[k].time \in completed

\* The place in the schedule of the alert Mark Complete acts on.
C29_Marked ==
  CHOOSE k \in 1..Len(fuelSchedule) :
    /\ IsCurrent(fuelSchedule[k], elapsedTime, completedAlerts)
    /\ \A j \in 1..(k - 1) : ~IsCurrent(fuelSchedule[j], elapsedTime, completedAlerts)

\* C29: marking an alert as completed during a ride changes the completion
\* status of that alert only: every other alert of the schedule, one
\* scheduled at the same minute included, is completed after the step
\* exactly if it was before.
C29_OnlyTheMarkedAlert ==
  [][(isRiding /\ isRiding' /\ completedAlerts' # completedAlerts) =>
       \A k \in 1..Len(fuelSchedule) :
         k # C29_Marked =>
           (C29_Completed(k, completedAlerts') <=> C29_Completed(k, completedAlerts))]_vars

====
